---- MODULE Spec2Model ----
(***************************************************************************)
(* The bulk inventory import and export of product-bulk-edit.              *)
(*                                                                         *)
(* Two revisions of the import action live in the repository:              *)
(*   "current" : src/unnamed/part_005                                      *)
(*   "routes"  : src/app/routes/app.import-product-data.jsx                *)
(* and two of the export action:                                           *)
(*   "current" : src/unnamed/part_004                                      *)
(*   "routes"  : src/app/routes/app.export-product-data.jsx                *)
(* All are modelled; the variable `revision` says which one runs.  The     *)
(* worksheet written by the export page and read by the import page is     *)
(* modelled after them.                                                    *)
(*                                                                         *)
(* A JavaScript string is a sequence of fragments: a one-character TLA+    *)
(* string per character of user data ("W", " ", "5"), and one literal      *)
(* fragment per piece of message text of the source.  A JavaScript value   *)
(* is a record [t, s]: its type tag t and, for strings and numbers, its    *)
(* string form s.                                                          *)
(***************************************************************************)
EXTENDS Integers, Sequences, FiniteSets, TLC

\* Largest number of rows in the submitted spreadsheet.
MaxRows == 2

-----------------------------------------------------------------------------
(* JavaScript values and the string functions the action uses *)

Undefined == [t |-> "undefined", s |-> <<>>]
Null == [t |-> "null", s |-> <<>>]
Str(s) == [t |-> "string", s |-> s]
Num(s) == [t |-> "number", s |-> s]

\* String(v) / template interpolation `${v}`
String(v) ==
  CASE v.t = "undefined" -> <<"undefined">>
    [] v.t = "null" -> <<"null">>
    [] OTHER -> v.s

\* ToBoolean(v): undefined, null, "" and 0 are falsy
Truthy(v) ==
  CASE v.t = "string" -> v.s # <<>>
    [] v.t = "number" -> v.s # <<"0">>
    [] OTHER -> FALSE

IsWhiteSpace(c) == c = " "

RECURSIVE TrimStart(_)
TrimStart(s) ==
  IF s # <<>> /\ IsWhiteSpace(s[1]) THEN TrimStart(Tail(s)) ELSE s

RECURSIVE TrimEnd(_)
TrimEnd(s) ==
  IF s # <<>> /\ IsWhiteSpace(s[Len(s)])
  THEN TrimEnd(SubSeq(s, 1, Len(s) - 1))
  ELSE s

\* String.prototype.trim
Trim(s) == TrimEnd(TrimStart(s))

LowerChar(c) ==
  CASE c = "W" -> "w"
    [] c = "M" -> "m"
    [] c = "X" -> "x"
    [] OTHER -> c

\* String.prototype.toLowerCase
ToLowerCase(s) == [k \in 1..Len(s) |-> LowerChar(s[k])]

IsDigit(c) == c \in {"0", "1", "2", "3", "4", "5", "6", "7", "8", "9"}

DigitVal(c) ==
  CASE c = "0" -> 0 [] c = "1" -> 1 [] c = "2" -> 2 [] c = "3" -> 3
    [] c = "4" -> 4 [] c = "5" -> 5 [] c = "6" -> 6 [] c = "7" -> 7
    [] c = "8" -> 8 [] c = "9" -> 9

RECURSIVE ParseDigits(_, _)
ParseDigits(s, acc) ==
  IF s = <<>> \/ ~IsDigit(s[1])
  THEN acc
  ELSE ParseDigits(Tail(s), acc * 10 + DigitVal(s[1]))

NaN == [nan |-> TRUE, n |-> 0]

\* parseInt(v): leading white space skipped, optional sign, then the longest
\* prefix of decimal digits; NaN when there is no digit there.
parseInt(v) ==
  LET str == TrimStart(String(v))
      signed == str # <<>> /\ str[1] \in {"+", "-"}
      body == IF signed THEN Tail(str) ELSE str
      sign == IF signed /\ str[1] = "-" THEN -1 ELSE 1
  IN  IF body = <<>> \/ ~IsDigit(body[1])
      THEN NaN
      ELSE [nan |-> FALSE, n |-> sign * ParseDigits(body, 0)]

\* row[c] of a parsed JSON row: undefined when the column is absent
Get(row, c) == IF c \in DOMAIN row THEN row[c] ELSE Undefined

\* { ...row, [field]: reason }
Spread(row, field, reason) ==
  [c \in (DOMAIN row) \cup {field} |-> IF c = field THEN Str(reason) ELSE row[c]]

-----------------------------------------------------------------------------
(* The remote store behind admin.graphql *)

\* The store's locations, in listing order.  L2 is named like L1 up to case.
RemoteLocations ==
  << [id |-> "L1", name |-> <<"W">>],
     [id |-> "L2", name |-> <<"w">>],
     [id |-> "L3", name |-> <<"M">>] >>

Available(q) == <<[name |-> "available", quantity |-> q]>>

\* The catalogs a run may meet: variants in search order, each with its
\* inventory item and that item's inventory levels.
Catalogs ==
  { << [sku |-> <<"A">>, inventoryItem |-> "I1",
        inventoryLevels |-> << [location |-> "L1", quantities |-> Available(5)],
                               [location |-> "L3", quantities |-> Available(0)] >>] >>,
    << [sku |-> <<"A">>, inventoryItem |-> "I1",
        inventoryLevels |-> << [location |-> "L1", quantities |-> Available(0)] >>],
       [sku |-> <<"B">>, inventoryItem |-> "I2",
        inventoryLevels |-> << [location |-> "L3", quantities |-> <<>>] >>] >> }

\* The form's locationId: all locations, a store location, an unknown id.
LocationIds == {"ALL_LOCATIONS", "L1", "L9"}

\* userErrors lists a mutation may answer with (empty: applied).
ErrorLists ==
  { <<>>,
    << [message |-> "Quantity can't be negative"], [message |-> "Second error"] >> }

-----------------------------------------------------------------------------
(* The request: the parsed rows and the form's locationId *)

\* JSON.stringify drops the properties whose value is undefined
Row(sku, qty, loc) ==
  LET f == [c \in {"SKU", "Quantity Available", "Inventory Location"} |->
              CASE c = "SKU" -> sku
                [] c = "Quantity Available" -> qty
                [] OTHER -> loc]
  IN  [c \in {c \in DOMAIN f : f[c] # Undefined} |-> f[c]]

ValidQuantities == {Num(<<"5">>), Str(<<"0">>)}
BadQuantities == {Undefined, Str(<<"x">>), Str(<<"5", "x">>)}
SheetLocations ==
  {Str(<<" ">>), Str(<<"W">>), Str(<<"w", " ">>), Str(<<"M">>), Str(<<"X">>)}

\* The rows a sheet may hold
RowSet ==
  {Row(Undefined, Str(<<"x">>), Str(<<"W">>)),
   Row(Str(<<>>), Num(<<"5">>), Str(<<"W">>)),
   Row(Str(<<"SKU">>), Num(<<"5">>), Str(<<"W">>)),
   Row(Str(<<"A">>), Num(<<"5">>), Undefined)}
  \cup {Row(Str(<<"A">>), q, l) : q \in ValidQuantities, l \in SheetLocations}
  \cup {Row(Str(<<"A">>), q, Str(<<"W">>)) : q \in BadQuantities}
  \cup {Row(Str(<<"B">>), Num(<<"5">>), l) : l \in {Str(<<"W">>), Str(<<"M">>)}}

RowLists == UNION {[1..n -> RowSet] : n \in 0..MaxRows}

-----------------------------------------------------------------------------
VARIABLES
  revision,              \* which action runs: "current" or "routes"
  rows,                  \* JSON.parse(formData.get("data"))
  locationId,            \* formData.get("locationId")
  store,                 \* the remote catalog with its inventory levels
  remote,                \* how the remote answers: freely, or by a fixed rule
  results,               \* the results object of the action
  allLocations,          \* listing fetched in All Locations mode
  selectedLocationName,  \* name fetched in single location mode
  processedCombinations, \* the Set of `${sku}|${targetLocationName}` keys
  pc,                    \* where the action stands
  i,                     \* index of the row the loop is at
  cur,                   \* the loop body's locals once a row passed the local checks
  calls,                 \* the admin.graphql calls issued so far, in order
  fate,                  \* per row: how the loop left it
  run,                   \* 1 for the first invocation, 2 for its repetition
  first,                 \* what the first invocation returned
  exportPc,              \* where the export action and the sheet it feeds stand
  products,              \* responseJson.data.products.edges of the export action
  variantNo,             \* number of the variant the export's forEach is at
  exportRows,            \* the rows array of the export action
  origin,                \* per export row: product, variant and level it stands for
  sheet,                 \* the worksheet written by the download effect
  jsonData,              \* the records handleFileChange reads from a worksheet
  other                  \* a second invocation of the import action on the same store

importVars == <<rows, store, remote, results, allLocations,
                selectedLocationName, processedCombinations, pc, i, cur, calls,
                fate, run, first>>

exportVars == <<exportPc, products, variantNo, exportRows, origin, sheet, jsonData>>

vars == <<revision, locationId, importVars, exportVars, other>>

isAllLocationsMode == locationId = "ALL_LOCATIONS"

ReasonField == IF revision = "current" THEN "Error Reason" ELSE "errorReason"
SkipField == IF revision = "current" THEN "Reason" ELSE "reason"

NoLocals ==
  [sku |-> Undefined, quantity |-> 0, targetLocationId |-> "",
   targetLocationName |-> Null, inventoryItemId |-> ""]

NewResults ==
  [total |-> Len(rows), updated |-> 0, errors |-> <<>>,
   failedRows |-> <<>>, skippedRows |-> <<>>]

Pending == [outcome |-> "pending", pos |-> 0, target |-> ""]

\* No second invocation is going on
NoOther == [pc |-> "idle", sku |-> <<>>, targetLocationId |-> "", quantity |-> 0,
            inventoryItemId |-> "", calls |-> <<>>]

\* No export is going on
ExportIdle ==
  /\ exportPc = "idle"
  /\ products = <<>>
  /\ variantNo = 1
  /\ exportRows = <<>>
  /\ origin = <<>>
  /\ sheet = <<>>
  /\ jsonData = <<>>

\* A remote that may answer every call in every way
AnyRemote == [fixed |-> FALSE, fetch |-> "ok", lookupThrows |-> {}, mutation |-> <<>>]

InitWith(rev) ==
  /\ revision = rev
  /\ rows \in RowLists
  /\ locationId \in LocationIds
  /\ store \in Catalogs
  /\ remote = AnyRemote
  /\ results = NewResults
  /\ allLocations = <<>>
  /\ selectedLocationName = Null
  /\ processedCombinations = {}
  /\ pc = "locations"
  /\ i = 1
  /\ cur = NoLocals
  /\ calls = <<>>
  /\ fate = [k \in 1..Len(rows) |-> Pending]
  /\ run = 1
  /\ first = [pc |-> "", results |-> NewResults, fate |-> fate]
  /\ ExportIdle
  /\ other = NoOther

Init == InitWith("current")

-----------------------------------------------------------------------------
(* The answers of the remote *)

FetchAnswers == IF remote.fixed THEN {remote.fetch} ELSE {"ok", "nodata", "throw"}

LookupAnswers(sku) ==
  IF remote.fixed
  THEN {IF sku \in remote.lookupThrows THEN "throw" ELSE "ok"}
  ELSE {"ok", "throw"}

Answered(errors) == [throws |-> FALSE, userErrors |-> errors, errors |-> FALSE]
Thrown == [throws |-> TRUE, userErrors |-> <<>>, errors |-> FALSE]

\* An answer { errors: [...] } without data: the mutation was not run
ErrorsOnly == [throws |-> FALSE, userErrors |-> <<>>, errors |-> TRUE]

MutationAnswers(quantity) ==
  IF remote.fixed
  THEN {remote.mutation[quantity]}
  ELSE {Answered(e) : e \in ErrorLists} \cup {Thrown, ErrorsOnly}

\* error.message of a failed admin.graphql call
FetchFailed == <<"fetch failed">>

\* location(id: $id) { name }
LocationName(id) ==
  LET hits == {k \in 1..Len(RemoteLocations) : RemoteLocations[k].id = id}
  IN  IF hits = {} THEN Undefined
      ELSE Str(RemoteLocations[CHOOSE k \in hits : TRUE].name)

\* productVariants(first: 1, query: `sku:${sku}`): index of the first variant
\* with that SKU, 0 when there is none
FindVariant(sku) ==
  LET hits == {k \in 1..Len(store) : store[k].sku = sku}
  IN  IF hits = {} THEN 0 ELSE CHOOSE k \in hits : \A h \in hits : k <= h

\* One admin.graphql call: the request, the row it was issued for (0 before
\* the loop) and the answer: thrown, or the variants or userErrors returned;
\* errors says that the answer was an error response without data
Call(op, row, sku, item, loc, quantity, throws, edges, userErrors) ==
  [op |-> op, row |-> row, sku |-> sku, inventoryItemId |-> item,
   locationId |-> loc, quantity |-> quantity, throws |-> throws,
   edges |-> edges, userErrors |-> userErrors, errors |-> FALSE]

\* ApplySet, as an adjustment of the quantity by a delta
ApplyAdjust(item, loc, quantity) ==
  [k \in 1..Len(store) |->
     IF store[k].inventoryItem # item THEN store[k]
     ELSE LET levels == store[k].inventoryLevels
          IN  [store[k] EXCEPT !.inventoryLevels =
                 [n \in 1..Len(levels) |->
                    IF levels[n].location = loc /\ levels[n].quantities # <<>>
                    THEN [levels[n] EXCEPT !.quantities =
                            Available(levels[n].quantities[1].quantity + quantity)]
                    ELSE levels[n]]]]

\* inventorySetQuantities with name "available", applied by the store
ApplySet(item, loc, quantity) ==
  [k \in 1..Len(store) |->
     IF store[k].inventoryItem # item THEN store[k]
     ELSE LET levels == store[k].inventoryLevels
              at == {n \in 1..Len(levels) : levels[n].location = loc}
          IN  [store[k] EXCEPT !.inventoryLevels =
                 IF at = {}
                 THEN Append(levels, [location |-> loc, quantities |-> Available(quantity)])
                 ELSE [n \in 1..Len(levels) |->
                         IF n \in at
                         THEN [levels[n] EXCEPT !.quantities = Available(quantity)]
                         ELSE levels[n]]]]

-----------------------------------------------------------------------------
(* The loop body up to the first remote call *)

Outcome(kind, error, reason, sku, quantity, id, name) ==
  [kind |-> kind, error |-> error, reason |-> reason, sku |-> sku,
   quantity |-> quantity, targetLocationId |-> id, targetLocationName |-> name]

Continue == Outcome("continue", <<>>, <<>>, Undefined, 0, "", Null)
Fail(error, reason) == Outcome("fail", error, reason, Undefined, 0, "", Null)
Throw(message) == Outcome("throw", <<>>, message, Undefined, 0, "", Null)
Pass(sku, quantity, id, name) == Outcome("pass", <<>>, <<>>, sku, quantity, id, name)

\* row["SKU"] of a row that is null throws a TypeError in the try block, and
\* again in the catch block, which reads row["SKU"] for its message
Escape ==
  Outcome("escape", <<>>, <<"Cannot read properties of null (reading 'SKU')">>,
          Undefined, 0, "", Null)

Skipped(sku) == <<"Skipped SKU ">> \o String(sku)

\* FoundLocation, taking the last match of the listing
FoundLocationLast(sheetLocation) ==
  LET hits == {k \in 1..Len(allLocations) :
                 ToLowerCase(allLocations[k].name) = ToLowerCase(sheetLocation)}
  IN  IF hits = {} THEN 0 ELSE CHOOSE k \in hits : \A h \in hits : k >= h

\* allLocations.find(loc => loc.name.toLowerCase() === sheetLocation.toLowerCase())
FoundLocation(sheetLocation) ==
  LET hits == {k \in 1..Len(allLocations) :
                 ToLowerCase(allLocations[k].name) = ToLowerCase(sheetLocation)}
  IN  IF hits = {} THEN 0 ELSE CHOOSE k \in hits : \A h \in hits : k <= h

\* allLocations.find(loc => loc.name === sheetLocation.trim())
FoundLocationExact(sheetLocation) ==
  LET hits == {k \in 1..Len(allLocations) :
                 allLocations[k].name = Trim(sheetLocation)}
  IN  IF hits = {} THEN 0 ELSE CHOOSE k \in hits : \A h \in hits : k <= h

\* parseInt(quantityRaw) and the isNaN test
ParseQuantity(quantityRaw) == parseInt(quantityRaw)

\* SheetLocation, without the trim
SheetLocationUntrimmed(row) ==
  LET sheetLocationRaw == Get(row, "Inventory Location")
  IN  IF Truthy(sheetLocationRaw) THEN String(sheetLocationRaw) ELSE <<>>

\* String(sheetLocationRaw).trim(), or "" for a falsy cell
SheetLocation(row) ==
  LET sheetLocationRaw == Get(row, "Inventory Location")
  IN  IF Truthy(sheetLocationRaw) THEN Trim(String(sheetLocationRaw)) ELSE <<>>

\* ResolveInListing, a row without a location going to the listing's first one
ResolveInListingOrFirst(sheetLocation, sku, quantity) ==
  LET found == FoundLocation(sheetLocation)
  IN  IF sheetLocation = <<>> /\ Len(allLocations) > 0
      THEN Pass(sku, quantity, allLocations[1].id, Str(allLocations[1].name))
      ELSE IF found = 0
      THEN Fail(Skipped(sku) \o <<": Location '">> \o sheetLocation
                  \o <<"' not found in store">>,
                <<"Location '">> \o sheetLocation \o <<"' not found in store">>)
      ELSE Pass(sku, quantity, allLocations[found].id, Str(allLocations[found].name))

\* All Locations mode: the sheet's location is required and looked up by name
ResolveInListing(sheetLocation, sku, quantity) ==
  LET found == FoundLocation(sheetLocation)
  IN  IF sheetLocation = <<>>
      THEN Fail(Skipped(sku) \o
                  <<": Inventory Location is required when \"All Locations\" is selected">>,
                <<"Inventory Location is required for All Locations mode">>)
      ELSE IF found = 0
      THEN Fail(Skipped(sku) \o <<": Location '">> \o sheetLocation
                  \o <<"' not found in store">>,
                <<"Location '">> \o sheetLocation \o <<"' not found in store">>)
      ELSE Pass(sku, quantity, allLocations[found].id, Str(allLocations[found].name))

\* ResolveSelected, letting a row through whatever location it names
ResolveSelectedAnyway(sheetLocation, sku, quantity) ==
  Pass(sku, quantity, locationId, selectedLocationName)

\* Single location mode: a location given in the sheet must name the selected
\* one.  toLowerCase() of a name that is not a string throws a TypeError.
\* (The source writes the unequal sign U+2260 where this text has /=.)
ResolveSelected(sheetLocation, sku, quantity) ==
  IF sheetLocation = <<>>
  THEN Pass(sku, quantity, locationId, selectedLocationName)
  ELSE IF selectedLocationName.t # "string"
  THEN Throw(<<"Cannot read properties of ">> \o String(selectedLocationName)
               \o <<" (reading 'toLowerCase')">>)
  ELSE IF ToLowerCase(sheetLocation) # ToLowerCase(selectedLocationName.s)
  THEN Fail(Skipped(sku) \o <<": Location in sheet '">> \o sheetLocation
              \o <<"' does not match selected location '">>
              \o String(selectedLocationName) \o <<"'">>,
            <<"Location mismatch: '">> \o sheetLocation \o <<"' /= '">>
              \o String(selectedLocationName) \o <<"'">>)
  ELSE Pass(sku, quantity, locationId, selectedLocationName)

\* ResolveLocation, with the test for a missing location ahead of the mode test
ResolveLocationRequired(row, sku, quantity) ==
  IF isAllLocationsMode \/ SheetLocation(row) = <<>>
  THEN ResolveInListing(SheetLocation(row), sku, quantity)
  ELSE ResolveSelected(SheetLocation(row), sku, quantity)

\* The target location of a row whose SKU and quantity are fine
ResolveLocation(row, sku, quantity) ==
  IF isAllLocationsMode
  THEN ResolveInListing(SheetLocation(row), sku, quantity)
  ELSE ResolveSelected(SheetLocation(row), sku, quantity)

\* `${sku}|${targetLocationName}`
CombinationKey(sku, targetLocationName) ==
  String(sku) \o <<"|">> \o String(targetLocationName)

\* DuplicateCheck, looking the bare SKU up in the set of keys
DuplicateCheckBySku(o) ==
  IF o.kind = "pass" /\ String(o.sku) \in processedCombinations
  THEN Fail(Skipped(o.sku) \o <<": You have identical row having same SKU and location">>,
            <<"You have identical row having same SKU and location">>)
  ELSE o

\* The processedCombinations test on a row that has a target location
DuplicateCheck(o) ==
  IF o.kind = "pass"
     /\ CombinationKey(o.sku, o.targetLocationName) \in processedCombinations
  THEN Fail(Skipped(o.sku) \o <<": You have identical row having same SKU and location">>,
            <<"You have identical row having same SKU and location">>)
  ELSE o

\* IsHeaderOrEmpty, without the test for the header label
IsEmptyOnly(row) == ~Truthy(Get(row, "SKU"))

\* The row filter
IsHeaderOrEmpty(row) ==
  ~Truthy(Get(row, "SKU")) \/ Get(row, "SKU") = Str(<<"SKU">>)

\* ValidateRow, resolving the location ahead of the quantity test
ValidateRowLocationFirst(row) ==
  LET sku == Get(row, "SKU")
      quantity == ParseQuantity(Get(row, "Quantity Available"))
      o == ResolveLocation(row, sku, quantity.n)
  IN  IF row = Null
      THEN Escape
      ELSE IF IsHeaderOrEmpty(row)
      THEN Continue
      ELSE IF o.kind # "pass"
      THEN o
      ELSE IF quantity.nan
      THEN Fail(Skipped(sku) \o <<": Invalid or missing quantity value">>,
                <<"Invalid or missing quantity value">>)
      ELSE DuplicateCheck(o)

\* src/unnamed/part_005, from the row filter to the duplicate test
ValidateRow(row) ==
  LET sku == Get(row, "SKU")
      quantity == ParseQuantity(Get(row, "Quantity Available"))
  IN  IF row = Null
      THEN Escape
      ELSE IF IsHeaderOrEmpty(row)
      THEN Continue
      ELSE IF quantity.nan
      THEN Fail(Skipped(sku) \o <<": Invalid or missing quantity value">>,
                <<"Invalid or missing quantity value">>)
      ELSE DuplicateCheck(ResolveLocation(row, sku, quantity.n))

\* src/app/routes/app.import-product-data.jsx, from the row filter to the
\* location test; it has no duplicate test
ValidateRowRoutes(row) ==
  LET sku == Get(row, "SKU")
      quantity == ParseQuantity(Get(row, "Quantity Available"))
      sheetLocation == Get(row, "Inventory Location")
      found == FoundLocationExact(sheetLocation.s)
  IN  IF row = Null
      THEN Escape
      ELSE IF IsHeaderOrEmpty(row)
      THEN Continue
      ELSE IF quantity.nan
      THEN Fail(Skipped(sku) \o <<": Invalid or missing quantity value">>,
                <<"Invalid or missing quantity value">>)
      ELSE IF Truthy(sheetLocation) /\ sheetLocation.t # "string"
      THEN Throw(<<"sheetLocation.trim is not a function">>)
      ELSE IF isAllLocationsMode
      THEN IF ~Truthy(sheetLocation) \/ Trim(sheetLocation.s) = <<>>
           THEN Fail(Skipped(sku) \o
                       <<": No location specified in sheet (required for All Locations mode)">>,
                     <<"No location specified in sheet">>)
           ELSE IF found = 0
           THEN Fail(Skipped(sku) \o <<": Location '">> \o sheetLocation.s
                       \o <<"' not found in store">>,
                     <<"Location '">> \o sheetLocation.s \o <<"' not found in store">>)
           ELSE Pass(sku, quantity.n, allLocations[found].id,
                     Str(allLocations[found].name))
      ELSE IF Truthy(sheetLocation) /\ Trim(sheetLocation.s) # <<>>
              /\ Str(Trim(sheetLocation.s)) # selectedLocationName
           THEN Fail(Skipped(sku) \o <<": Location in sheet '">> \o sheetLocation.s
                       \o <<"' does not match selected location '">>
                       \o String(selectedLocationName) \o <<"'">>,
                     <<"Location mismatch: '">> \o sheetLocation.s \o <<"' /= '">>
                       \o String(selectedLocationName) \o <<"'">>)
           ELSE Pass(sku, quantity.n, locationId, selectedLocationName)

-----------------------------------------------------------------------------
(* The action, one step per remote call *)

\* Failure, pushing the failed row a second time
FailurePushedTwice(error, reason) ==
  /\ results' = [results EXCEPT
                   !.errors = Append(@, error),
                   !.failedRows = Append(Append(@, Spread(rows[i], ReasonField, reason)),
                                         Spread(rows[i], ReasonField, reason))]
  /\ fate' = [fate EXCEPT ![i].outcome = "failed",
                            ![i].pos = Len(results.failedRows) + 1]

\* results.errors.push(error); results.failedRows.push({ ...row, reason })
Failure(error, reason) ==
  /\ results' = [results EXCEPT
                   !.errors = Append(@, error),
                   !.failedRows = Append(@, Spread(rows[i], ReasonField, reason))]
  /\ fate' = [fate EXCEPT ![i].outcome = "failed",
                            ![i].pos = Len(results.failedRows) + 1]

\* Caught, recording the failed row without an error message
CaughtUnreported(message) ==
  /\ results' = [results EXCEPT
                   !.failedRows = Append(@, Spread(rows[i], ReasonField, message))]
  /\ fate' = [fate EXCEPT ![i].outcome = "failed",
                            ![i].pos = Len(results.failedRows) + 1]

\* The catch block of the loop body
Caught(message) ==
  Failure(<<"Error processing SKU ">> \o String(Get(rows[i], "SKU")) \o <<": ">>
            \o message,
          message)

\* Skip, putting the entry at the head of skippedRows
SkipUnshift(reason) ==
  /\ results' = [results EXCEPT
                   !.skippedRows = <<Spread(rows[i], SkipField, reason)>> \o @]
  /\ fate' = [fate EXCEPT ![i].outcome = "skipped", ![i].pos = 1]

\* results.skippedRows.push({ ...row, reason })
Skip(reason) ==
  /\ results' = [results EXCEPT
                   !.skippedRows = Append(@, Spread(rows[i], SkipField, reason))]
  /\ fate' = [fate EXCEPT ![i].outcome = "skipped",
                            ![i].pos = Len(results.skippedRows) + 1]

\* Updated, without the increment
UpdatedUncounted ==
  /\ results' = results
  /\ fate' = [fate EXCEPT ![i].outcome = "updated"]

\* results.updated++
Updated ==
  /\ results' = [results EXCEPT !.updated = @ + 1]
  /\ fate' = [fate EXCEPT ![i].outcome = "updated"]

NextRow == i' = i + 1 /\ pc' = "loop"

\* The location queries that precede the loop
FetchLocations ==
  /\ pc = "locations"
  /\ \E answer \in FetchAnswers :
       /\ calls' = Append(calls,
                     [Call(IF isAllLocationsMode THEN "getLocations" ELSE "getLocation",
                           0, <<>>, "", "", 0, answer = "throw", <<>>, <<>>)
                        EXCEPT !.errors = (answer = "nodata")])
       /\ IF answer = "throw"
          THEN /\ pc' = "threw"
               /\ UNCHANGED <<allLocations, selectedLocationName>>
          ELSE /\ pc' = "loop"
               /\ allLocations' =
                    IF isAllLocationsMode /\ answer = "ok"
                    THEN [k \in 1..Len(RemoteLocations) |->
                            [id |-> RemoteLocations[k].id, name |-> RemoteLocations[k].name]]
                    ELSE <<>>
               /\ selectedLocationName' =
                    IF isAllLocationsMode THEN Null
                    ELSE IF answer = "ok" THEN LocationName(locationId)
                    ELSE Undefined
  /\ UNCHANGED <<revision, rows, locationId, store, remote, results,
                 processedCombinations, i, cur, fate, run, first, exportVars, other>>

\* One row, from the row filter to the duplicate test
Validate ==
  /\ pc = "loop"
  /\ i <= Len(rows)
  /\ LET o == IF revision = "current"
              THEN ValidateRow(rows[i])
              ELSE ValidateRowRoutes(rows[i])
     IN  CASE o.kind = "continue" ->
                /\ fate' = [fate EXCEPT ![i].outcome = "dropped"]
                /\ NextRow
                /\ UNCHANGED <<results, processedCombinations, cur>>
           [] o.kind = "fail" ->
                /\ Failure(o.error, o.reason)
                /\ NextRow
                /\ UNCHANGED <<processedCombinations, cur>>
           [] o.kind = "throw" ->
                /\ Caught(o.reason)
                /\ NextRow
                /\ UNCHANGED <<processedCombinations, cur>>
           [] o.kind = "escape" ->
                /\ pc' = "threw"
                /\ UNCHANGED <<results, fate, i, processedCombinations, cur>>
           [] o.kind = "pass" ->
                /\ processedCombinations' =
                     IF revision = "current"
                     THEN processedCombinations
                            \cup {CombinationKey(o.sku, o.targetLocationName)}
                     ELSE processedCombinations
                /\ cur' = [sku |-> o.sku, quantity |-> o.quantity,
                           targetLocationId |-> o.targetLocationId,
                           targetLocationName |-> o.targetLocationName,
                           inventoryItemId |-> ""]
                /\ fate' = [fate EXCEPT ![i].target = o.targetLocationId]
                /\ pc' = "lookup"
                /\ UNCHANGED <<results, i>>
  /\ UNCHANGED <<revision, rows, locationId, store, remote, allLocations,
                 selectedLocationName, calls, run, first, exportVars, other>>

\* CurrentQuantity, taking the first level without comparing its location
CurrentQuantityOfFirstLevel(inventoryLevels, targetLocationId) ==
  LET level == inventoryLevels[1]
      named == {n \in 1..Len(level.quantities) : level.quantities[n].name = "available"}
      availableQty == level.quantities[CHOOSE n \in named : \A m \in named : n <= m]
  IN  IF inventoryLevels = <<>> THEN [locationFound |-> FALSE, currentQuantity |-> 0]
      ELSE [locationFound |-> TRUE,
            currentQuantity |-> IF named = {} THEN 0 ELSE availableQty.quantity]

\* The scan of the variant's inventory levels for the target location
CurrentQuantity(inventoryLevels, targetLocationId) ==
  LET at == {n \in 1..Len(inventoryLevels) :
               inventoryLevels[n].location = targetLocationId}
      level == inventoryLevels[CHOOSE n \in at : \A m \in at : n <= m]
      named == {n \in 1..Len(level.quantities) : level.quantities[n].name = "available"}
      availableQty == level.quantities[CHOOSE n \in named : \A m \in named : n <= m]
  IN  IF at = {} THEN [locationFound |-> FALSE, currentQuantity |-> 0]
      ELSE [locationFound |-> TRUE,
            currentQuantity |-> IF named = {} THEN 0 ELSE availableQty.quantity]

\* AlreadyMatches, with a truthiness test on the current quantity in front
AlreadyMatchesNonZero(currentQuantity, quantity) ==
  currentQuantity # 0 /\ currentQuantity = quantity

\* currentQuantity === quantity
AlreadyMatches(currentQuantity, quantity) == currentQuantity = quantity

\* The findVariantBySKU query and what the loop body does with its answer
VariantLookup ==
  /\ pc = "lookup"
  /\ \E answer \in LookupAnswers(String(cur.sku)) :
       LET v == FindVariant(String(cur.sku))
           at == CurrentQuantity(store[v].inventoryLevels, cur.targetLocationId)
       IN  /\ calls' = Append(calls,
                         Call("findVariantBySKU", i, String(cur.sku), "", "", 0,
                              answer = "throw",
                              IF answer = "throw" \/ v = 0 THEN <<>> ELSE <<store[v]>>,
                              <<>>))
           /\ IF answer = "throw"
              THEN Caught(FetchFailed) /\ NextRow /\ UNCHANGED cur
              ELSE IF v = 0
              THEN /\ Failure(<<"Variant not found for SKU: ">> \o String(cur.sku),
                              <<"Variant not found">>)
                   /\ NextRow /\ UNCHANGED cur
              ELSE IF revision = "current" /\ ~at.locationFound
              THEN /\ Failure(Skipped(cur.sku) \o <<": SKU don't have this location">>,
                              <<"SKU don't have this location">>)
                   /\ NextRow /\ UNCHANGED cur
              ELSE IF AlreadyMatches(at.currentQuantity, cur.quantity)
              THEN Skip(<<"Quantity already matches">>) /\ NextRow /\ UNCHANGED cur
              ELSE /\ cur' = [cur EXCEPT !.inventoryItemId = store[v].inventoryItem]
                   /\ pc' = "mutation"
                   /\ UNCHANGED <<results, fate, i>>
  /\ UNCHANGED <<revision, rows, locationId, store, remote, allLocations,
                 selectedLocationName, processedCombinations, run, first, exportVars, other>>

\* OnMutationThrow, issuing the mutation again instead
OnMutationThrowRetry == UNCHANGED <<results, fate, i, pc>>

\* A mutation call that throws lands in the catch block; the loop goes on
OnMutationThrow == Caught(FetchFailed) /\ NextRow

\* UserErrorMessage, taking the last error of the list
UserErrorMessageOfLast(userErrors) == userErrors[Len(userErrors)].message

\* updateData.data.inventorySetQuantities.userErrors[0].message
UserErrorMessage(userErrors) == userErrors[1].message

\* The inventorySetQuantities mutation and what the loop body does with its answer
Mutation ==
  /\ pc = "mutation"
  /\ \E answer \in MutationAnswers(cur.quantity) :
       /\ calls' = Append(calls,
                     [Call("inventorySetQuantities", i, String(cur.sku),
                           cur.inventoryItemId, cur.targetLocationId, cur.quantity,
                           answer.throws, <<>>, answer.userErrors)
                        EXCEPT !.errors = answer.errors])
       /\ IF answer.throws
          THEN OnMutationThrow /\ UNCHANGED store
          ELSE IF Len(answer.userErrors) > 0
          THEN /\ Failure(<<"Error updating SKU ">> \o String(cur.sku) \o <<": ">>
                            \o <<UserErrorMessage(answer.userErrors)>>,
                          <<UserErrorMessage(answer.userErrors)>>)
               /\ NextRow
               /\ UNCHANGED store
          ELSE /\ Updated
               /\ NextRow
               /\ store' = IF answer.errors
                           THEN store
                           ELSE ApplySet(cur.inventoryItemId, cur.targetLocationId,
                                         cur.quantity)
  /\ UNCHANGED <<revision, rows, locationId, remote, allLocations,
                 selectedLocationName, processedCombinations, cur, run, first, exportVars, other>>

\* return { success: true, results }
Return ==
  /\ pc = "loop"
  /\ i > Len(rows)
  /\ pc' = "done"
  /\ UNCHANGED <<revision, rows, locationId, store, remote, results, allLocations,
                 selectedLocationName, processedCombinations, i, cur, calls, fate,
                 run, first, exportVars, other>>

Next == FetchLocations \/ Validate \/ VariantLookup \/ Mutation \/ Return

Spec == Init /\ [][Next]_vars

\* The action of src/app/routes/app.import-product-data.jsx
InitRoutes == InitWith("routes")
SpecRoutes == InitRoutes /\ [][Next]_vars

-----------------------------------------------------------------------------
(* Two invocations in a row against a remote that answers by a fixed rule *)

\* A remote whose answer depends on the request only: the location query is
\* answered; the variant query throws for the SKUs of lookupThrows; the
\* mutation is answered per quantity.  A mutation that throws is not applied.
FixedRemotes ==
  LET ok == [q \in {0, 5} |-> Answered(<<>>)]
  IN  {[fixed |-> TRUE, fetch |-> "ok", lookupThrows |-> {}, mutation |-> ok],
       [fixed |-> TRUE, fetch |-> "ok", lookupThrows |-> {<<"B">>}, mutation |-> ok],
       [fixed |-> TRUE, fetch |-> "ok", lookupThrows |-> {},
        mutation |-> [ok EXCEPT ![5] = Answered(<<[message |-> "Quantity can't be negative"]>>)]],
       [fixed |-> TRUE, fetch |-> "ok", lookupThrows |-> {},
        mutation |-> [ok EXCEPT ![0] = Thrown]],
       [fixed |-> TRUE, fetch |-> "nodata", lookupThrows |-> {}, mutation |-> ok]}

\* The rows of the repeated sheet
RepeatedRowSet ==
  {Row(Str(<<"SKU">>), Num(<<"5">>), Str(<<"W">>)),
   Row(Str(<<"A">>), Str(<<"x">>), Str(<<"W">>)),
   Row(Str(<<"A">>), Num(<<"5">>), Undefined),
   Row(Str(<<"B">>), Num(<<"5">>), Str(<<"M">>))}
  \cup {Row(Str(<<"A">>), q, l) :
          q \in ValidQuantities, l \in {Str(<<"W">>), Str(<<"w", " ">>), Str(<<"M">>)}}

InitRepeated ==
  /\ revision = "current"
  /\ rows \in UNION {[1..n -> RepeatedRowSet] : n \in 0..MaxRows}
  /\ locationId \in LocationIds
  /\ store \in Catalogs
  /\ remote \in FixedRemotes
  /\ results = NewResults
  /\ allLocations = <<>>
  /\ selectedLocationName = Null
  /\ processedCombinations = {}
  /\ pc = "locations"
  /\ i = 1
  /\ cur = NoLocals
  /\ calls = <<>>
  /\ fate = [k \in 1..Len(rows) |-> Pending]
  /\ run = 1
  /\ first = [pc |-> "", results |-> NewResults, fate |-> fate]
  /\ ExportIdle
  /\ other = NoOther

\* The same request submitted again once the first invocation returned
Resubmit ==
  /\ pc = "done"
  /\ run = 1
  /\ run' = 2
  /\ first' = [pc |-> pc, results |-> results, fate |-> fate]
  /\ results' = NewResults
  /\ allLocations' = <<>>
  /\ selectedLocationName' = Null
  /\ processedCombinations' = {}
  /\ pc' = "locations"
  /\ i' = 1
  /\ cur' = NoLocals
  /\ calls' = <<>>
  /\ fate' = [k \in 1..Len(rows) |-> Pending]
  /\ UNCHANGED <<revision, rows, locationId, store, remote, exportVars, other>>

NextRepeated == Next \/ Resubmit

SpecRepeated == InitRepeated /\ [][NextRepeated]_vars

-----------------------------------------------------------------------------
(* The action posted any JSON array: null elements, columns of any name *)

\* { ...row, [c]: v } as the sheet would give it: the row with one more column
With(row, c, v) == [k \in DOMAIN row \cup {c} |-> IF k = c THEN v ELSE row[k]]

\* Rows beyond the three columns of the template: a null element, rows with a
\* column named like a report's reason field, a row with a column of its own
AnyRowSet ==
  {Null,
   Row(Str(<<"A">>), Num(<<"5">>), Str(<<"W">>)),
   Row(Str(<<"B">>), Num(<<"5">>), Str(<<"M">>)),
   With(Row(Str(<<"A">>), Num(<<"5">>), Str(<<"W">>)), "Reason", Str(<<"o", "l", "d">>)),
   With(Row(Str(<<"A">>), Str(<<"x">>), Str(<<"W">>)), "Error Reason", Str(<<"o", "l", "d">>)),
   With(Row(Str(<<"A">>), Str(<<"0">>), Str(<<"M">>)), "Note", Str(<<"n">>))}

InitAnyRows ==
  /\ revision = "current"
  /\ rows \in UNION {[1..n -> AnyRowSet] : n \in 0..MaxRows}
  /\ locationId \in LocationIds
  /\ store \in Catalogs
  /\ remote = AnyRemote
  /\ results = NewResults
  /\ allLocations = <<>>
  /\ selectedLocationName = Null
  /\ processedCombinations = {}
  /\ pc = "locations"
  /\ i = 1
  /\ cur = NoLocals
  /\ calls = <<>>
  /\ fate = [k \in 1..Len(rows) |-> Pending]
  /\ run = 1
  /\ first = [pc |-> "", results |-> NewResults, fate |-> fate]
  /\ ExportIdle
  /\ other = NoOther

SpecAnyRows == InitAnyRows /\ [][Next]_vars

-----------------------------------------------------------------------------
(* Two invocations of the action in flight against the same store: the one *)
(* above, and a second one of another request, which is at the variant     *)
(* lookup of a row for the same SKU and location with a quantity of its    *)
(* own.  Each call of the second one notes how many calls of the first one *)
(* the store had answered by then.                                         *)

RaceRowSet ==
  {Row(Str(<<"A">>), Num(<<"5">>), Str(<<"W">>)),
   Row(Str(<<"A">>), Str(<<"0">>), Str(<<"w", " ">>)),
   Row(Str(<<"A">>), Str(<<"0">>), Str(<<" ">>))}

RaceQuantities == {5, 7}

InitRace ==
  /\ revision = "current"
  /\ rows \in UNION {[1..n -> RaceRowSet] : n \in 1..MaxRows}
  /\ locationId \in {"ALL_LOCATIONS", "L1"}
  /\ store \in Catalogs
  /\ remote = AnyRemote
  /\ results = NewResults
  /\ allLocations = <<>>
  /\ selectedLocationName = Null
  /\ processedCombinations = {}
  /\ pc = "locations"
  /\ i = 1
  /\ cur = NoLocals
  /\ calls = <<>>
  /\ fate = [k \in 1..Len(rows) |-> Pending]
  /\ run = 1
  /\ first = [pc |-> "", results |-> NewResults, fate |-> fate]
  /\ ExportIdle
  /\ \E q \in RaceQuantities :
       other = [NoOther EXCEPT !.pc = "lookup", !.sku = <<"A">>,
                               !.targetLocationId = "L1", !.quantity = q]

OtherCall(op, answer) ==
  [op |-> op, quantity |-> other.quantity, throws |-> answer.throws,
   userErrors |-> answer.userErrors, errors |-> answer.errors,
   after |-> Len(calls)]

\* The second invocation's findVariantBySKU query and what follows its answer
OtherVariantLookup ==
  /\ other.pc = "lookup"
  /\ \E answer \in LookupAnswers(other.sku) :
       LET v == FindVariant(other.sku)
           at == CurrentQuantity(store[v].inventoryLevels, other.targetLocationId)
           call == OtherCall("findVariantBySKU",
                             IF answer = "throw" THEN Thrown ELSE Answered(<<>>))
       IN  other' =
             IF \/ answer = "throw"
                \/ v = 0
                \/ ~at.locationFound
                \/ AlreadyMatches(at.currentQuantity, other.quantity)
             THEN [other EXCEPT !.pc = "done", !.calls = Append(@, call)]
             ELSE [other EXCEPT !.pc = "mutation", !.calls = Append(@, call),
                                !.inventoryItemId = store[v].inventoryItem]
  /\ UNCHANGED <<revision, locationId, importVars, exportVars>>

\* The second invocation's inventorySetQuantities mutation
OtherMutation ==
  /\ other.pc = "mutation"
  /\ \E answer \in MutationAnswers(other.quantity) :
       /\ other' = [other EXCEPT !.pc = "done", !.calls =
                      Append(@, OtherCall("inventorySetQuantities", answer))]
       /\ store' = IF answer.throws \/ Len(answer.userErrors) > 0 \/ answer.errors
                   THEN store
                   ELSE ApplySet(other.inventoryItemId, other.targetLocationId,
                                 other.quantity)
  /\ UNCHANGED <<revision, locationId, rows, remote, results, allLocations,
                 selectedLocationName, processedCombinations, pc, i, cur, calls,
                 fate, run, first, exportVars>>

NextRace == Next \/ OtherVariantLookup \/ OtherMutation

SpecRace == InitRace /\ [][NextRace]_vars

-----------------------------------------------------------------------------
(* The export action: the getProducts query, the flattening of its answer  *)
(* into rows, the sentinel row.  Two revisions: "current" is the action of *)
(* src/unnamed/part_004, "routes" that of                                  *)
(* src/app/routes/app.export-product-data.jsx.  An export row is the       *)
(* sequence of its [k, v] properties, in insertion order.                  *)

\* Largest number of products in the answer of getProducts.
MaxProducts == 2

\* An inventoryLevels edge: its location and the quantities asked for
Level(id, name, quantities) ==
  [location |-> [id |-> id, name |-> Str(name)], quantities |-> quantities]

Item(levels) == [isNull |-> FALSE, inventoryLevels |-> levels]
NoItem == [isNull |-> TRUE, inventoryLevels |-> <<>>]

\* A variants edge
Variant(sku, optionValues, inventoryItem) ==
  [sku |-> sku,
   selectedOptions |-> [n \in 1..Len(optionValues) |->
                          [name |-> "Option", value |-> Str(optionValues[n])]],
   inventoryItem |-> inventoryItem]

\* The products a store may hold: a variant stocked at two locations (one of
\* them holding 0) next to one without levels and with four options; a
\* variant without SKU and without inventory item; a level without
\* quantities; a product without variants.
ProductSet ==
  { [title |-> Str(<<"S">>),
     variants |->
       << Variant(Str(<<"A">>), << <<"r">> >>,
                  Item(<< Level("L1", <<"W">>, <<[quantity |-> Num(<<"1", "0">>)]>>),
                          Level("L3", <<"M">>, <<[quantity |-> Num(<<"0">>)]>>) >>)),
          Variant(Str(<<"B">>), << <<"1">>, <<"2">>, <<"3">>, <<"4">> >>, Item(<<>>)) >>],
    [title |-> Str(<<"C">>),
     variants |-> << Variant(Null, <<>>, NoItem) >>],
    [title |-> Str(<<"M">>),
     variants |->
       << Variant(Str(<<"C">>), << <<"x">>, <<"y">> >>,
                  Item(<< Level("L1", <<"W">>, <<>>) >>)),
          Variant(Str(<<"D">>), <<>>,
                  Item(<< Level("L3", <<"M">>, <<[quantity |-> Num(<<"7">>)]>>) >>)) >>],
    [title |-> Str(<<"E">>), variants |-> <<>>] }

ProductLists == UNION {[1..n -> ProductSet] : n \in 0..MaxProducts}

\* The form's locationId: none, the All Locations option of part_004, store
\* locations, an id no level has
ExportLocationIds == {"", "ALL_LOCATIONS", "L1", "L3", "L9"}

Columns ==
  << "Product Title", "SKU", "Option1 Value", "Option2 Value", "Option3 Value",
     "Inventory Location", "Quantity Available" >>

\* The object literal pushed to rows
ExportRow(title, sku, options, location, quantity) ==
  LET v == <<title, sku, options[1], options[2], options[3], location, quantity>>
  IN  [n \in 1..Len(Columns) |-> [k |-> Columns[n], v |-> v[n]]]

\* row[key] of an export row
Field(row, key) ==
  LET hits == {n \in 1..Len(row) : row[n].k = key}
  IN  IF hits = {} THEN Undefined ELSE row[CHOOSE n \in hits : TRUE].v

\* The three option columns: "" where the variant has no such option, the
\* options after the third left out
Options(variant) ==
  [n \in 1..3 |-> IF n <= Len(variant.selectedOptions)
                  THEN variant.selectedOptions[n].value
                  ELSE Str(<<>>)]

\* The condition of the filter expression
Filtering ==
  IF revision = "current"
  THEN locationId # "" /\ locationId # "ALL_LOCATIONS"
  ELSE locationId # ""

\* PlaceholderWanted, whatever the filter
PlaceholderAlways == TRUE

\* The condition under which a variant without (matching) levels gets a row
PlaceholderWanted ==
  IF revision = "current"
  THEN locationId = "" \/ locationId = "ALL_LOCATIONS"
  ELSE locationId = ""

\* variant.inventoryItem?.inventoryLevels?.edges || []
InventoryEdges(variant) ==
  IF variant.inventoryItem.isNull THEN <<>> ELSE variant.inventoryItem.inventoryLevels

\* The indices of the edges that filteredInventory keeps, in order
FilteredInventory(variant) ==
  LET inventoryEdges == InventoryEdges(variant)
      numbered == [n \in 1..Len(inventoryEdges) |-> n]
      Keeps(n) == inventoryEdges[n].location.id = locationId
  IN  IF Filtering THEN SelectSeq(numbered, Keeps) ELSE numbered

\* level.quantities[0]?.quantity || 0
QuantityAvailable(level) ==
  IF Len(level.quantities) > 0 /\ Truthy(level.quantities[1].quantity)
  THEN level.quantities[1].quantity
  ELSE Num(<<"0">>)

\* variant.sku || ""
SkuOrEmpty(variant) == IF Truthy(variant.sku) THEN variant.sku ELSE Str(<<>>)

\* The body of the inner forEach: the rows of one variant, each with the
\* product, variant and level (0: none) it stands for
VariantRows(p, v) ==
  LET product == products[p]
      variant == product.variants[v]
      filteredInventory == FilteredInventory(variant)
  IN  IF Len(filteredInventory) = 0
      THEN IF PlaceholderWanted
           THEN << [row |-> ExportRow(product.title, SkuOrEmpty(variant),
                                      Options(variant), Str(<<"N/A">>), Num(<<"0">>)),
                    from |-> <<p, v, 0>>] >>
           ELSE <<>>
      ELSE [n \in 1..Len(filteredInventory) |->
              LET level == InventoryEdges(variant)[filteredInventory[n]]
              IN  [row |-> ExportRow(product.title, SkuOrEmpty(variant),
                                     Options(variant), level.location.name,
                                     QuantityAvailable(level)),
                   from |-> <<p, v, filteredInventory[n]>>]]

RECURSIVE VariantsFrom(_)
\* The variants the nested forEach visits, in order
VariantsFrom(p) ==
  IF p > Len(products) THEN <<>>
  ELSE [v \in 1..Len(products[p].variants) |-> <<p, v>>] \o VariantsFrom(p + 1)

VariantsInOrder == VariantsFrom(1)

SentinelRow ==
  ExportRow(Str(<<"No data found">>), Str(<<>>),
            <<Str(<<>>), Str(<<>>), Str(<<>>)>>, Str(<<>>), Str(<<>>))

\* WithSentinel, pushing the sentinel row whatever rows holds
WithSentinelAlways(r) == Append(r, SentinelRow)

\* if (rows.length === 0) rows.push({ "Product Title": "No data found", ... })
WithSentinel(r) == IF Len(r) = 0 THEN <<SentinelRow>> ELSE r

\* No import is going on
ImportIdle ==
  /\ rows = <<>>
  /\ store = <<>>
  /\ remote = AnyRemote
  /\ results = NewResults
  /\ allLocations = <<>>
  /\ selectedLocationName = Null
  /\ processedCombinations = {}
  /\ pc = "idle"
  /\ i = 1
  /\ cur = NoLocals
  /\ calls = <<>>
  /\ fate = <<>>
  /\ run = 1
  /\ first = [pc |-> "", results |-> NewResults, fate |-> fate]

InitExport ==
  /\ revision \in {"current", "routes"}
  /\ locationId \in ExportLocationIds
  /\ ImportIdle
  /\ other = NoOther
  /\ exportPc = "query"
  /\ products = <<>>
  /\ variantNo = 1
  /\ exportRows = <<>>
  /\ origin = <<>>
  /\ sheet = <<>>
  /\ jsonData = <<>>

\* The answers to getProducts: thrown, an errors response, or products
ProductAnswers ==
  {[kind |-> k, edges |-> <<>>] : k \in {"throw", "errors"}}
    \cup {[kind |-> "ok", edges |-> e] : e \in ProductLists}

\* The getProducts query and what the action does with its answer
GetProducts ==
  /\ exportPc = "query"
  /\ \E answer \in ProductAnswers :
       IF answer.kind = "throw"
       THEN exportPc' = "threw" /\ UNCHANGED products
       ELSE IF answer.kind = "errors"
       THEN exportPc' = "failed" /\ UNCHANGED products
       ELSE exportPc' = "flatten" /\ products' = answer.edges
  /\ UNCHANGED <<revision, locationId, importVars, other, variantNo, exportRows, origin,
                 sheet, jsonData>>

\* One round of the inner forEach
FlattenVariant ==
  /\ exportPc = "flatten"
  /\ variantNo <= Len(VariantsInOrder)
  /\ LET pushed == VariantRows(VariantsInOrder[variantNo][1],
                               VariantsInOrder[variantNo][2])
     IN  /\ exportRows' = exportRows \o [n \in 1..Len(pushed) |-> pushed[n].row]
         /\ origin' = origin \o [n \in 1..Len(pushed) |-> pushed[n].from]
  /\ variantNo' = variantNo + 1
  /\ UNCHANGED <<revision, locationId, importVars, other, exportPc, products, sheet,
                 jsonData>>

\* After the loops: the sentinel row, and return { success: true, rows }
ExportReturn ==
  /\ exportPc = "flatten"
  /\ variantNo > Len(VariantsInOrder)
  /\ exportRows' = WithSentinel(exportRows)
  /\ origin' = origin \o [n \in 1..(Len(exportRows') - Len(exportRows)) |-> <<0, 0, 0>>]
  /\ exportPc' = "done"
  /\ UNCHANGED <<revision, locationId, importVars, other, products, variantNo, sheet,
                 jsonData>>

-----------------------------------------------------------------------------
(* The spreadsheet: the download effect of the export page writes it, and  *)
(* handleFileChange of the import page reads it.  A worksheet is the       *)
(* sequence of its rows, a row the sequence of its cells' values; an empty *)
(* cell is null.                                                           *)

\* Largest number of records of a row set given to the download effect.
MaxRecords == 2

\* Object.keys(row): each key as the string written to its cell
ObjectKeys(row) == [n \in 1..Len(row) |-> Str(<<row[n].k>>)]

\* Object.values(row)
ObjectValues(row) == [n \in 1..Len(row) |-> row[n].v]

\* worksheet.addRow(values): a cell per value; null and undefined leave the
\* cell empty, strings (the empty one too) and numbers are kept as they are
AddRow(values) ==
  [n \in 1..Len(values) |->
     IF values[n].t \in {"undefined", "null"} THEN Null ELSE values[n]]

\* The worksheet the download effect builds: the keys of the first row, then
\* the values of every row
Encode(r) ==
  <<AddRow(ObjectKeys(IF Len(r) = 0 THEN <<>> ELSE r[1]))>>
    \o [n \in 1..Len(r) |-> AddRow(ObjectValues(r[n]))]

\* headers[colNumber]: undefined where row 1 has no cell or an empty one
HeaderAt(headers, colNumber) ==
  IF colNumber <= Len(headers) /\ headers[colNumber].t # "null"
  THEN headers[colNumber]
  ELSE Undefined

\* rowData[key] = value
Assign(rowData, key, value) ==
  IF \E n \in 1..Len(rowData) : rowData[n].k = key
  THEN [n \in 1..Len(rowData) |->
          IF rowData[n].k = key THEN [k |-> key, v |-> value] ELSE rowData[n]]
  ELSE Append(rowData, [k |-> key, v |-> value])

RECURSIVE EachCell(_, _, _, _)
\* row.eachCell over the cells that hold a value, from colNumber on: a cell
\* under a truthy header becomes a property of rowData
EachCell(cells, headers, colNumber, rowData) ==
  IF colNumber > Len(cells) THEN rowData
  ELSE EachCell(cells, headers, colNumber + 1,
                IF cells[colNumber].t # "null" /\ Truthy(HeaderAt(headers, colNumber))
                THEN Assign(rowData, HeaderAt(headers, colNumber).s[1], cells[colNumber])
                ELSE rowData)

\* rowData["SKU"] && String(rowData["SKU"]).trim() !== ""
HasSku(rowData) ==
  Truthy(Field(rowData, "SKU")) /\ Trim(String(Field(rowData, "SKU"))) # <<>>

\* The records handleFileChange reads: one per row after the first, those
\* without a SKU left out
Decode(worksheet) ==
  IF Len(worksheet) = 0 THEN <<>>
  ELSE SelectSeq([n \in 1..(Len(worksheet) - 1) |->
                    EachCell(worksheet[n + 1], worksheet[1], 1, <<>>)],
                 HasSku)

\* The download effect of ExportProductData, once the action has answered
Download ==
  /\ exportPc = "done"
  /\ sheet' = Encode(exportRows)
  /\ exportPc' = "downloaded"
  /\ UNCHANGED <<revision, locationId, importVars, other, products, variantNo,
                 exportRows, origin, jsonData>>

\* handleFileChange, given the downloaded file, up to setParsedData
HandleFileChange ==
  /\ exportPc = "downloaded"
  /\ jsonData' = Decode(sheet)
  /\ exportPc' = "loaded"
  /\ UNCHANGED <<revision, locationId, importVars, other, products, variantNo,
                 exportRows, origin, sheet>>

NextExport ==
  GetProducts \/ FlattenVariant \/ ExportReturn \/ Download \/ HandleFileChange

SpecExport == InitExport /\ [][NextExport]_vars

\* The key sets and the values of the row sets given to the download effect
KeyLists ==
  { <<"SKU", "Quantity Available">>, <<"Product Title", "SKU">>, <<"Product Title">> }

CellValues == {Str(<<"A">>), Str(<<>>), Str(<<" ">>), Num(<<"5">>), Num(<<"0">>)}

\* The records over one list of keys
Records(keys) ==
  {[n \in 1..Len(keys) |-> [k |-> keys[n], v |-> f[n]]] :
     f \in [1..Len(keys) -> CellValues]}

\* A row set of any content, keyed alike, arrives at the download effect
InitCodec ==
  /\ revision = "current"
  /\ locationId = ""
  /\ ImportIdle
  /\ other = NoOther
  /\ exportPc = "done"
  /\ products = <<>>
  /\ variantNo = 1
  /\ \E keys \in KeyLists :
       exportRows \in UNION {[1..n -> Records(keys)] : n \in 0..MaxRecords}
  /\ origin = <<>>
  /\ sheet = <<>>
  /\ jsonData = <<>>

NextCodec == Download \/ HandleFileChange

SpecCodec == InitCodec /\ [][NextCodec]_vars

-----------------------------------------------------------------------------
(* Vocabulary of the properties: rows, their calls and their entries *)

Rows == 1..Len(rows)

\* Row r has been through the loop body's local tests
Validated(r) == r < i \/ (r = i /\ pc \in {"lookup", "mutation"})

\* The loop is through with row r
Left(r) == fate[r].outcome # "pending"

CallsFor(r) == {k \in 1..Len(calls) : calls[k].row = r}

MutationsFor(r) == {k \in CallsFor(r) : calls[k].op = "inventorySetQuantities"}

LookupsFor(r) == {k \in CallsFor(r) : calls[k].op = "findVariantBySKU"}

\* Row r has its entry in failedRows, with this reason
FailedWith(r, reason) ==
  /\ fate[r].outcome = "failed"
  /\ results.failedRows[fate[r].pos] = Spread(rows[r], "Error Reason", reason)

-----------------------------------------------------------------------------
\* C1: at every point of a run, updated + len(failedRows) + len(skippedRows)
\* is at most total, and total is the number of submitted rows throughout.
CountsWithinTotal ==
  /\ results.total = Len(rows)
  /\ results.updated + Len(results.failedRows) + Len(results.skippedRows)
       <= results.total

\* A finished run that updated a row and dropped another
CountsWithinTotalWitness ==
  /\ pc = "done"
  /\ results.updated = 1
  /\ results.updated + Len(results.failedRows) + Len(results.skippedRows)
       < results.total

\* C2: no row has more than one inventorySetQuantities call issued for it,
\* whatever the remote answers.
OneMutationPerRow == \A r \in Rows : Cardinality(MutationsFor(r)) <= 1

\* A row whose single mutation call threw, and which the loop has left
OneMutationPerRowWitness ==
  \E r \in Rows : /\ Left(r)
                  /\ \E k \in MutationsFor(r) : calls[k].throws
                  /\ FailedWith(r, FetchFailed)

\* The row gets past the row filter and the quantity test
ReachesResolution(r) ==
  /\ ~IsHeaderOrEmpty(rows[r])
  /\ ~ParseQuantity(Get(rows[r], "Quantity Available")).nan

\* What location resolution makes of the row
Resolution(r) ==
  ResolveLocation(rows[r], Get(rows[r], "SKU"),
                  ParseQuantity(Get(rows[r], "Quantity Available")).n)

\* Rows a and b have the same SKU and the same resolved location name
SamePair(a, b) ==
  /\ ReachesResolution(a) /\ Resolution(a).kind = "pass"
  /\ ReachesResolution(b) /\ Resolution(b).kind = "pass"
  /\ Get(rows[a], "SKU") = Get(rows[b], "SKU")
  /\ Resolution(a).targetLocationName = Resolution(b).targetLocationName

DuplicateReason == <<"You have identical row having same SKU and location">>

\* C3: in both revisions of the action no two rows that got past validation
\* (have a target location, so reach the variant lookup) have the same SKU
\* and target location, and no two mutations are for the same pair.
SkuLocationPairsUnique ==
  /\ \A a, b \in Rows :
       (a < b /\ fate[a].target # "" /\ fate[b].target # "")
         => ~(/\ Get(rows[a], "SKU") = Get(rows[b], "SKU")
              /\ fate[a].target = fate[b].target)
  /\ \A k, l \in 1..Len(calls) :
       (k < l /\ calls[k].op = "inventorySetQuantities"
              /\ calls[l].op = "inventorySetQuantities")
         => ~(calls[k].sku = calls[l].sku /\ calls[k].locationId = calls[l].locationId)

\* C4: of two rows with the same SKU and resolved location name the later
\* one is in failedRows with the duplicate reason and has no remote call,
\* and the earliest one went on to the variant lookup, however it ended.
DuplicateRowFails ==
  pc \notin {"locations", "threw"} =>
    \A a, b \in Rows :
      (a < b /\ Left(b) /\ SamePair(a, b))
        => /\ FailedWith(b, DuplicateReason)
           /\ CallsFor(b) = {}
           /\ (\A c \in Rows : c < a => ~SamePair(c, a))
                => Cardinality(LookupsFor(a)) = 1

\* A duplicate of a row that itself failed, spelled differently in the sheet
DuplicateRowFailsWitness ==
  \E a, b \in Rows :
    /\ a < b /\ SamePair(a, b) /\ rows[a] # rows[b]
    /\ fate[a].outcome = "failed"
    /\ FailedWith(b, DuplicateReason)

IsIntegerLiteral(s) ==
  LET body == IF s # <<>> /\ s[1] \in {"+", "-"} THEN Tail(s) ELSE s
  IN  body # <<>> /\ \A k \in 1..Len(body) : IsDigit(body[k])

\* C5: a row with a SKU whose Quantity Available is not an integer literal
\* (missing, empty, text, text after digits) is in failedRows with reason
\* "Invalid or missing quantity value", is not counted in updated and has
\* no remote call.
NonNumericQuantityFails ==
  \A r \in Rows :
    (/\ Left(r)
     /\ ~IsHeaderOrEmpty(rows[r])
     /\ ~IsIntegerLiteral(Trim(String(Get(rows[r], "Quantity Available")))))
      => /\ FailedWith(r, <<"Invalid or missing quantity value">>)
         /\ CallsFor(r) = {}

\* The variant lookup of row r returned a variant whose level at the row's
\* target location holds the quantity the row asks for
ReadMatches(r) ==
  \E k \in LookupsFor(r) :
    /\ ~calls[k].throws
    /\ calls[k].edges # <<>>
    /\ LET levels == calls[k].edges[1].inventoryLevels
           wanted == ParseQuantity(Get(rows[r], "Quantity Available")).n
       IN  \E n \in 1..Len(levels) :
             /\ levels[n].location = fate[r].target
             /\ \A m \in 1..(n - 1) : levels[m].location # fate[r].target
             /\ \/ \E q \in 1..Len(levels[n].quantities) :
                     /\ levels[n].quantities[q].name = "available"
                     /\ levels[n].quantities[q].quantity = wanted
                \/ /\ wanted = 0
                   /\ \A q \in 1..Len(levels[n].quantities) :
                        levels[n].quantities[q].name # "available"

WithOutcome(o) == {r \in Rows : fate[r].outcome = o}

\* C6: a row whose current quantity at the target location, as read by the
\* variant lookup, equals the requested one has exactly one skippedRows
\* entry (reason "Quantity already matches"), adds nothing to updated or
\* failedRows, and never has a mutation call.
MatchingRowSkipped ==
  /\ \A r \in Rows :
       ReadMatches(r)
         => /\ fate[r].outcome = "skipped"
            /\ results.skippedRows[fate[r].pos]
                 = Spread(rows[r], "Reason", <<"Quantity already matches">>)
            /\ MutationsFor(r) = {}
            /\ ~(pc = "mutation" /\ i = r)
  /\ Len(results.skippedRows) = Cardinality(WithOutcome("skipped"))
  /\ Len(results.failedRows) = Cardinality(WithOutcome("failed"))
  /\ results.updated = Cardinality(WithOutcome("updated"))
  /\ \A a, b \in WithOutcome("skipped") : fate[a].pos = fate[b].pos => a = b

\* A row asking for 0 where the store holds 0 was skipped
MatchingRowSkippedWitness ==
  \E r \in Rows :
    /\ ReadMatches(r)
    /\ ParseQuantity(Get(rows[r], "Quantity Available")).n = 0
    /\ fate[r].outcome = "skipped"
    /\ pc = "done"

\* The rows in failedRows, each with its reason
FailedReasons(res, f) ==
  {<<r, res.failedRows[f[r].pos]["Error Reason"]>> :
     r \in {x \in Rows : f[x].outcome = "failed"}}

\* C7: the action run a second time on the same rows and mode, against a
\* remote that answers by a fixed rule, applies what it answers without
\* userErrors and is changed by nobody else, returns updated = 0, has every
\* row the first run updated in skippedRows, and fails the same rows with
\* the same reasons.
SecondRunUpdatesNothing ==
  (run = 2 /\ pc = "done")
    => /\ results.updated = 0
       /\ \A r \in Rows :
            first.fate[r].outcome = "updated" => fate[r].outcome = "skipped"
       /\ FailedReasons(results, fate) = FailedReasons(first.results, first.fate)

\* A second run after a first one that updated a row and failed another
SecondRunUpdatesNothingWitness ==
  /\ run = 2 /\ pc = "done"
  /\ first.results.updated >= 1
  /\ Len(first.results.failedRows) >= 1
  /\ Len(results.skippedRows) >= 1

\* The row's Inventory Location is empty after trimming
BlankLocation(r) ==
  LET v == Get(rows[r], "Inventory Location")
  IN  v.t \in {"undefined", "null"} \/ Trim(String(v)) = <<>>

\* C8 as stated: a row with a SKU and a quantity whose Inventory Location is
\* empty after trimming is in failedRows with reason "please add proper
\* location" and has no remote call, in both modes.
BlankLocationFails ==
  \A r \in Rows :
    (Left(r) /\ ReachesResolution(r) /\ BlankLocation(r))
      => /\ FailedWith(r, <<"please add proper location">>)
         /\ CallsFor(r) = {}

\* C8, amended: such a row, in All Locations mode, is in failedRows with
\* reason "Inventory Location is required for All Locations mode" and has
\* no remote call; in single location mode it is not failed for its missing
\* location: it goes on with the selected location as its target, to the
\* duplicate test and the variant lookup.
BlankLocationByMode ==
  pc \notin {"locations", "threw"} =>
    \A r \in Rows :
      (ReachesResolution(r) /\ BlankLocation(r) /\ Validated(r))
        => IF isAllLocationsMode
           THEN /\ FailedWith(r, <<"Inventory Location is required for All Locations mode">>)
                /\ CallsFor(r) = {}
           ELSE \/ fate[r].target = locationId /\ (Left(r) => LookupsFor(r) # {})
                \/ FailedWith(r, DuplicateReason) /\ CallsFor(r) = {}

\* In single location mode a row without a location was updated
BlankLocationByModeWitness ==
  \E r \in Rows :
    /\ ReachesResolution(r) /\ BlankLocation(r)
    /\ ~isAllLocationsMode
    /\ fate[r].outcome = "updated"
    /\ fate[r].target = locationId

\* Equal up to letter case
SameUpToCase(a, b) ==
  /\ Len(a) = Len(b)
  /\ \A k \in 1..Len(a) :
       a[k] = b[k] \/ {a[k], b[k]} \in {{"W", "w"}, {"M", "m"}, {"X", "x"}}

TrimmedLocation(r) == Trim(String(Get(rows[r], "Inventory Location")))

\* C9: in All Locations mode a row's trimmed location is matched up to case
\* against the names of the fetched listing: with a match the target id and
\* name are those of the first matching entry; without one the row is in
\* failedRows with reason "Location '<name>' not found in store" and has no
\* remote call.
ListingMatchIsFirst ==
  (isAllLocationsMode /\ pc \notin {"locations", "threw"}) =>
    \A r \in Rows :
      (ReachesResolution(r) /\ ~BlankLocation(r) /\ Validated(r))
        => LET matches == {k \in 1..Len(allLocations) :
                             SameUpToCase(allLocations[k].name, TrimmedLocation(r))}
               k1 == CHOOSE k \in matches : \A h \in matches : k <= h
           IN  IF matches = {}
               THEN /\ FailedWith(r, <<"Location '">> \o TrimmedLocation(r)
                                        \o <<"' not found in store">>)
                    /\ CallsFor(r) = {}
               ELSE /\ \/ fate[r].target = allLocations[k1].id
                       \/ FailedWith(r, DuplicateReason) /\ CallsFor(r) = {}
                    /\ (r = i /\ pc \in {"lookup", "mutation"})
                         => /\ cur.targetLocationId = allLocations[k1].id
                            /\ cur.targetLocationName = Str(allLocations[k1].name)

\* A row naming "w " was updated at L1, the first entry named like it up to
\* case, though a later entry is named "w"
ListingMatchIsFirstWitness ==
  \E r \in Rows :
    /\ isAllLocationsMode
    /\ Get(rows[r], "Inventory Location") = Str(<<"w", " ">>)
    /\ fate[r].outcome = "updated"
    /\ fate[r].target = "L1"
    /\ \E k \in 1..Len(allLocations) :
         allLocations[k].name = <<"w">> /\ allLocations[k].id # "L1"

\* C10: in single location mode a row whose trimmed location differs, up to
\* case, from the selected location's name is in failedRows with reason
\* "Location mismatch: '<sheet>' /= '<selected>'" and has no remote call,
\* and a row whose location equals that name up to case goes on with the
\* selected id as target; also when the location query returned no name.
SelectedLocationMustMatch ==
  (~isAllLocationsMode /\ pc \notin {"locations", "threw"}) =>
    \A r \in Rows :
      (ReachesResolution(r) /\ ~BlankLocation(r) /\ Validated(r))
        => IF /\ selectedLocationName.t = "string"
              /\ SameUpToCase(selectedLocationName.s, TrimmedLocation(r))
           THEN \/ fate[r].target = locationId
                \/ FailedWith(r, DuplicateReason) /\ CallsFor(r) = {}
           ELSE /\ FailedWith(r, <<"Location mismatch: '">> \o TrimmedLocation(r)
                                    \o <<"' /= '">> \o String(selectedLocationName)
                                    \o <<"'">>)
                /\ CallsFor(r) = {}

\* The variant lookup of row r returned a variant that has no inventory level
\* at the row's target location
NoLevelAtTarget(r) ==
  \E k \in LookupsFor(r) :
    /\ ~calls[k].throws
    /\ calls[k].edges # <<>>
    /\ \A n \in 1..Len(calls[k].edges[1].inventoryLevels) :
         calls[k].edges[1].inventoryLevels[n].location # fate[r].target

\* C11: in both revisions of the action a row whose variant has no inventory
\* level at the target location is in failedRows with reason "SKU don't have
\* this location" and gets no mutation, whatever quantity it asks for; it is
\* never skipped or updated as if the location held 0.
MissingLevelFails ==
  \A r \in Rows :
    NoLevelAtTarget(r)
      => /\ fate[r].outcome = "failed"
         /\ results.failedRows[fate[r].pos]
              = Spread(rows[r], ReasonField, <<"SKU don't have this location">>)
         /\ MutationsFor(r) = {}
         /\ ~(pc = "mutation" /\ i = r)

\* The mutation calls of row r that were answered
AnsweredMutations(r) == {k \in MutationsFor(r) : ~calls[k].throws}

\* C12: a row whose mutation was answered with one or more userErrors is in
\* failedRows with the first error's message as reason and is not counted in
\* updated; a row whose mutation was answered without userErrors is counted
\* once in updated and has no entry in failedRows or skippedRows.
MutationAnswerDecides ==
  /\ \A r \in Rows : \A k \in AnsweredMutations(r) :
       IF Len(calls[k].userErrors) > 0
       THEN FailedWith(r, <<calls[k].userErrors[1].message>>)
       ELSE fate[r].outcome = "updated"
  /\ results.updated
       = Cardinality({r \in Rows : \E k \in AnsweredMutations(r) :
                                     calls[k].userErrors = <<>>})
  /\ Len(results.failedRows) = Cardinality(WithOutcome("failed"))
  /\ Len(results.skippedRows) = Cardinality(WithOutcome("skipped"))

\* One row failed by the first of two userErrors, another one updated
MutationAnswerDecidesWitness ==
  /\ pc = "done"
  /\ results.updated = 1
  /\ Len(results.skippedRows) = 0
  /\ \E r \in Rows : \E k \in AnsweredMutations(r) :
       /\ Len(calls[k].userErrors) = 2
       /\ FailedWith(r, <<"Quantity can't be negative">>)

\* C13: an exception raised while a row is processed (its variant lookup or
\* its mutation throws, location resolution faults, the row itself cannot be
\* read) never leaves the action: only the location query ahead of the loop
\* can make the action throw; the row is in failedRows with the raw message
\* and the loop goes on to the next row.
RowFailuresCaught ==
  /\ pc = "threw" => (Len(calls) = 1 /\ calls[1].row = 0 /\ calls[1].throws)
  /\ \A r \in Rows : \A k \in CallsFor(r) :
       calls[k].throws => (FailedWith(r, FetchFailed) /\ (i > r \/ pc = "threw"))

\* The entry of row r in the report it was put in
Entry(r) ==
  IF fate[r].outcome = "failed"
  THEN results.failedRows[fate[r].pos]
  ELSE results.skippedRows[fate[r].pos]

\* C14: the entry of a failed or skipped row has every column of the input
\* row with the input's value, and exactly one field more: "Error Reason" in
\* failedRows, "Reason" in skippedRows; also for a row that has a column of
\* that name already.
ReportKeepsRow ==
  \A r \in Rows :
    fate[r].outcome \in {"failed", "skipped"}
      => /\ \A c \in DOMAIN rows[r] :
              c \in DOMAIN Entry(r) /\ Entry(r)[c] = rows[r][c]
         /\ (DOMAIN Entry(r)) \ (DOMAIN rows[r])
              = {IF fate[r].outcome = "failed" THEN "Error Reason" ELSE "Reason"}

\* C15: rows are processed one at a time in input order: the calls are
\* issued in the order of their rows (each call is answered before the next
\* is issued), none for a row the loop has not reached; a row's mutation
\* comes after its variant lookup; the entries of failedRows and of
\* skippedRows stand in the order of their rows in the input.
RowsInOrder ==
  /\ \A k, l \in 1..Len(calls) : k < l => calls[k].row <= calls[l].row
  /\ \A r \in Rows :
       /\ r > i => (CallsFor(r) = {} /\ ~Left(r))
       /\ Left(r) => r < i
       /\ \A k \in MutationsFor(r) : \E l \in LookupsFor(r) : l < k /\ ~calls[l].throws
  /\ \A a, b \in Rows :
       (a < b /\ fate[a].outcome = fate[b].outcome
          /\ fate[a].outcome \in {"failed", "skipped"})
         => /\ fate[a].pos < fate[b].pos
            /\ \A c \in (DOMAIN rows[a]) \ {"Error Reason", "Reason"} :
                 Entry(a)[c] = rows[a][c]
            /\ \A c \in (DOMAIN rows[b]) \ {"Error Reason", "Reason"} :
                 Entry(b)[c] = rows[b][c]

\* Two failed rows, the first by its mutation's answer and the second by its
\* variant lookup, stand in failedRows in that order
RowsInOrderWitness ==
  /\ pc = "done"
  /\ Len(rows) = 2
  /\ fate[1].outcome = "failed" /\ fate[1].pos = 1 /\ MutationsFor(1) # {}
  /\ fate[2].outcome = "failed" /\ fate[2].pos = 2 /\ LookupsFor(2) # {}
  /\ rows[1] # rows[2]

\* C16: when the location query ahead of the loop fails (it throws, or it is
\* answered by an error response without location data) the action stops
\* there: no row is processed, no variant lookup or mutation is issued, and
\* no result is returned.
FailedLocationQueryAborts ==
  (calls # <<>> /\ (calls[1].throws \/ calls[1].errors))
    => /\ pc # "done"
       /\ Len(calls) = 1
       /\ \A r \in Rows : ~Left(r)
       /\ results = NewResults

-----------------------------------------------------------------------------
(* Vocabulary of the export properties *)

\* The variants of the fetched products, as <<product, variant>>
FetchedVariants ==
  UNION {{<<p, v>> : v \in 1..Len(products[p].variants)} : p \in 1..Len(products)}

\* The inventory levels of a fetched variant
LevelsOf(pv) == InventoryEdges(products[pv[1]].variants[pv[2]])

\* The export rows that stand for level n of variant pv (n = 0: for none)
RowsFor(pv, n) == {k \in 1..Len(exportRows) : origin[k] = <<pv[1], pv[2], n>>}

\* Export row k says what level n of variant pv holds
RowShows(k, pv, n) ==
  LET product == products[pv[1]]
      variant == product.variants[pv[2]]
      level == LevelsOf(pv)[n]
  IN  /\ Field(exportRows[k], "Product Title") = product.title
      /\ Field(exportRows[k], "SKU")
           = (IF variant.sku = Null THEN Str(<<>>) ELSE variant.sku)
      /\ Field(exportRows[k], "Inventory Location") = level.location.name
      /\ Field(exportRows[k], "Quantity Available")
           = (IF level.quantities = <<>> THEN Num(<<"0">>)
              ELSE level.quantities[1].quantity)

\* The form names one location
SpecificFilter == locationId \notin {"", "ALL_LOCATIONS"}

\* The inventory levels at the form's location, as <<product, variant, level>>
MatchingLevels ==
  {o \in UNION {{<<pv[1], pv[2], n>> : n \in 1..Len(LevelsOf(pv))} :
                    pv \in FetchedVariants} :
       LevelsOf(<<o[1], o[2]>>)[o[3]].location.id = locationId}

RowIsPlaceholder(k, pv) ==
  LET product == products[pv[1]]
      variant == product.variants[pv[2]]
  IN  /\ Field(exportRows[k], "Product Title") = product.title
      /\ Field(exportRows[k], "SKU")
           = (IF variant.sku = Null THEN Str(<<>>) ELSE variant.sku)
      /\ Field(exportRows[k], "Inventory Location") = Str(<<"N/A">>)
      /\ Field(exportRows[k], "Quantity Available") = Num(<<"0">>)

Flattened == {k \in 1..Len(exportRows) : origin[k] # <<0, 0, 0>>}

\* Export row k reads "No data found" and is blank elsewhere
RowIsSentinel(k) ==
  /\ Len(exportRows[k]) = Len(Columns)
  /\ \A n \in 1..Len(Columns) :
       /\ exportRows[k][n].k = Columns[n]
       /\ exportRows[k][n].v
            = (IF Columns[n] = "Product Title"
               THEN Str(<<"No data found">>) ELSE Str(<<>>))

\* C19: the rows the export action returns are never empty; the sentinel row
\* ("No data found", the other fields blank) is there exactly when flattening
\* gave no row, and then it is the only row.
SentinelIffEmpty ==
  exportPc = "done" =>
    /\ Len(exportRows) >= 1
    /\ IF Flattened = {}
       THEN Len(exportRows) = 1 /\ RowIsSentinel(1)
       ELSE \A k \in 1..Len(exportRows) : k \in Flattened /\ ~RowIsSentinel(k)

\* A filter that matches no level of the fetched variants: the sentinel alone
SentinelIffEmptyWitness ==
  /\ exportPc = "done"
  /\ FetchedVariants # {}
  /\ locationId = "L9"
  /\ Len(exportRows) = 1
  /\ RowIsSentinel(1)

\* C20: the records handleFileChange reads from the worksheet the download
\* effect wrote for a row set (rows keyed alike, string and number values)
\* are that row set: same records in the same order, same keys, same values,
\* none left out.
RoundTrip == exportPc = "loaded" => jsonData = exportRows

\* The SKU of row r is missing, empty, or the header label
SkuMissingOrHeader(r) ==
  Get(rows[r], "SKU") \in {Undefined, Null, Str(<<>>), Str(<<"SKU">>)}

\* C21: the loop leaves a row whose SKU is missing, empty or "SKU" without
\* any effect but going on to the next row: results (failedRows, skippedRows,
\* errors, updated), the duplicate keys and the calls stay as they are,
\* whatever the row's quantity and location are.
HeaderAndEmptyRowsDropped ==
  [][(pc = "loop" /\ i <= Len(rows) /\ SkuMissingOrHeader(i))
       => /\ results' = results
          /\ processedCombinations' = processedCombinations
          /\ calls' = calls
          /\ store' = store
          /\ fate' = [fate EXCEPT ![i].outcome = "dropped"]
          /\ i' = i + 1
          /\ pc' = "loop"]_vars

\* A run is over that dropped a row without SKU and with an invalid quantity
\* and a row with a valid quantity whose SKU is empty or the header label
HeaderAndEmptyRowsDroppedWitness ==
  /\ pc = "done"
  /\ \E r \in Rows : /\ fate[r].outcome = "dropped"
                     /\ Get(rows[r], "SKU") = Undefined
                     /\ ParseQuantity(Get(rows[r], "Quantity Available")).nan
  /\ \E r \in Rows : /\ fate[r].outcome = "dropped"
                     /\ Get(rows[r], "SKU") \in {Str(<<>>), Str(<<"SKU">>)}
                     /\ ~ParseQuantity(Get(rows[r], "Quantity Available")).nan
  /\ results = NewResults
  /\ Len(calls) = 1

None == [fails |-> FALSE, reason |-> <<>>]
Fails(reason) == [fails |-> TRUE, reason |-> reason]

\* The listing entries named like row r's location, up to case
ListingHits(r) ==
  {k \in 1..Len(allLocations) : SameUpToCase(allLocations[k].name, TrimmedLocation(r))}

\* The name of the location row r resolves to, when it does
ResolvedName(r) ==
  IF isAllLocationsMode
  THEN Str(allLocations[CHOOSE k \in ListingHits(r) : \A h \in ListingHits(r) : k <= h].name)
  ELSE selectedLocationName

\* The earliest of the steps ahead of the variant lookup that row r (which
\* has a SKU) fails, with its reason: quantity validation, location presence,
\* location resolution, duplicate detection
FirstLocalFailure(r) ==
  IF ParseQuantity(Get(rows[r], "Quantity Available")).nan
  THEN Fails(<<"Invalid or missing quantity value">>)
  ELSE IF isAllLocationsMode /\ BlankLocation(r)
  THEN Fails(<<"Inventory Location is required for All Locations mode">>)
  ELSE IF isAllLocationsMode /\ ListingHits(r) = {}
  THEN Fails(<<"Location '">> \o TrimmedLocation(r) \o <<"' not found in store">>)
  ELSE IF ~isAllLocationsMode /\ ~BlankLocation(r) /\ selectedLocationName.t # "string"
  THEN Fails(<<"Cannot read properties of ">> \o String(selectedLocationName)
               \o <<" (reading 'toLowerCase')">>)
  ELSE IF /\ ~isAllLocationsMode /\ ~BlankLocation(r)
          /\ ~SameUpToCase(selectedLocationName.s, TrimmedLocation(r))
  THEN Fails(<<"Location mismatch: '">> \o TrimmedLocation(r) \o <<"' /= '">>
               \o String(selectedLocationName) \o <<"'">>)
  ELSE IF String(Get(rows[r], "SKU")) \o <<"|">> \o String(ResolvedName(r))
            \in processedCombinations
  THEN Fails(DuplicateReason)
  ELSE None

\* results after one more failed row: row r with this reason
FailedNext(r, reason) ==
  /\ results'.failedRows
       = Append(results.failedRows, Spread(rows[r], "Error Reason", reason))
  /\ Len(results'.errors) = Len(results.errors) + 1
  /\ results'.skippedRows = results.skippedRows
  /\ results'.updated = results.updated
  /\ i' = r + 1
  /\ pc' = "loop"

\* The steps after a variant lookup's answer c for row r: variant found,
\* stocked at the target location, quantity not there already
AfterLookup(r, c) ==
  LET levels == c.edges[1].inventoryLevels
      here == {n \in 1..Len(levels) : levels[n].location = cur.targetLocationId}
      level == levels[CHOOSE n \in here : \A m \in here : n <= m]
      read == IF level.quantities = <<>> THEN 0 ELSE level.quantities[1].quantity
  IN  IF c.throws THEN FailedNext(r, FetchFailed)
      ELSE IF c.edges = <<>> THEN FailedNext(r, <<"Variant not found">>)
      ELSE IF here = {} THEN FailedNext(r, <<"SKU don't have this location">>)
      ELSE IF read = cur.quantity
      THEN /\ results' = [results EXCEPT !.skippedRows =
                            Append(@, Spread(rows[r], "Reason",
                                             <<"Quantity already matches">>))]
           /\ i' = r + 1
           /\ pc' = "loop"
      ELSE results' = results /\ i' = r /\ pc' = "mutation"

\* C22: a row goes through the steps in the order row filter, quantity
\* validation, location presence, location resolution, duplicate detection,
\* variant lookup, stocked-at-location check, no-op check, mutation, and
\* stops at the first it fails: it is reported once with that step's reason,
\* a row stopped ahead of duplicate detection records no key, a row stopped
\* ahead of the variant lookup issues no call, and a row stopped by the
\* lookup's answer issues no mutation.
PipelineShortCircuits ==
  [][/\ (pc = "loop" /\ i <= Len(rows) /\ ~SkuMissingOrHeader(i))
          => IF FirstLocalFailure(i).fails
             THEN /\ FailedNext(i, FirstLocalFailure(i).reason)
                  /\ calls' = calls
                  /\ processedCombinations' = processedCombinations
             ELSE /\ pc' = "lookup" /\ i' = i
                  /\ results' = results
                  /\ calls' = calls
                  /\ processedCombinations' = processedCombinations \cup
                       {String(Get(rows[i], "SKU")) \o <<"|">> \o String(ResolvedName(i))}
     /\ pc = "lookup"
          => /\ Len(calls') = Len(calls) + 1
             /\ calls'[Len(calls')].op = "findVariantBySKU"
             /\ AfterLookup(i, calls'[Len(calls')])
             /\ store' = store
     /\ pc = "mutation"
          => /\ Len(calls') = Len(calls) + 1
             /\ calls'[Len(calls')].op = "inventorySetQuantities"
             /\ i' = i + 1
             /\ pc' = "loop"]_vars

\* With a selected location the store does not know, a row naming W with an
\* invalid quantity was failed for its quantity, a row naming W with a valid
\* quantity was failed by the location step, and neither has a call or a key
PipelineShortCircuitsWitness ==
  /\ pc = "done"
  /\ ~isAllLocationsMode
  /\ selectedLocationName = Undefined
  /\ processedCombinations = {}
  /\ \E a, b \in Rows :
       /\ TrimmedLocation(a) = <<"W">> /\ TrimmedLocation(b) = <<"W">>
       /\ ParseQuantity(Get(rows[a], "Quantity Available")).nan
       /\ FailedWith(a, <<"Invalid or missing quantity value">>)
       /\ ~ParseQuantity(Get(rows[b], "Quantity Available")).nan
       /\ fate[b].outcome = "failed"
       /\ CallsFor(a) = {} /\ CallsFor(b) = {}
       /\ Len(results.failedRows) = 2

\* C23: whatever the rows and whatever the remote answers call by call, the
\* loop goes through the rows in order, each row once, with at most two calls
\* per row after the one location query, and once the loop has begun nothing
\* ends the action but the return that follows the last row.
LoopRunsEveryRow ==
  /\ Len(calls) <= 1 + 2 * Len(rows)
  /\ \A r \in Rows : Cardinality(CallsFor(r)) <= 2
  /\ \A r \in Rows : Left(r) <=> r < i
  /\ pc = "done" => i = Len(rows) + 1
  /\ pc = "threw" => (calls[Len(calls)].row = 0 /\ calls[Len(calls)].throws)

\* The first invocation's calls that set the quantity of item I1 at location
\* L1, and those of them the store applied
MySets ==
  {k \in 1..Len(calls) : /\ calls[k].op = "inventorySetQuantities"
                         /\ calls[k].inventoryItemId = "I1"
                         /\ calls[k].locationId = "L1"}
MyApplied ==
  {k \in MySets : ~calls[k].throws /\ ~calls[k].errors /\ calls[k].userErrors = <<>>}

\* The same for the second invocation
OtherSets ==
  {k \in 1..Len(other.calls) : other.calls[k].op = "inventorySetQuantities"}
OtherApplied ==
  {k \in OtherSets : /\ ~other.calls[k].throws /\ ~other.calls[k].errors
                     /\ other.calls[k].userErrors = <<>>}

\* The levels the store holds for item I1 at location L1, and their
\* available quantities
PairLevels ==
  UNION {{store[v].inventoryLevels[n] :
            n \in {n \in 1..Len(store[v].inventoryLevels) :
                     store[v].inventoryLevels[n].location = "L1"}} :
         v \in {v \in 1..Len(store) : store[v].inventoryItem = "I1"}}
HeldAtPair == {l.quantities[1].quantity : l \in {l \in PairLevels : l.quantities # <<>>}}

Last(S) == CHOOSE k \in S : \A h \in S : h <= k

\* The quantity of the mutation for the pair that the store applied last
LastQuantity ==
  IF /\ OtherApplied # {}
     /\ \A k \in MyApplied : other.calls[Last(OtherApplied)].after >= k
  THEN other.calls[Last(OtherApplied)].quantity
  ELSE calls[Last(MyApplied)].quantity

\* C24: of two invocations in flight against the same store for the same
\* inventory item and location, each issues at most one set mutation for the
\* pair and reads the variant at most once per row, without retry; the store
\* applies a mutation whatever quantity it holds, and from the first applied
\* mutation on the quantity it holds for the pair is that of the mutation it
\* applied last.
LastWriterWins ==
  /\ Cardinality(MySets) <= 1
  /\ Cardinality(OtherSets) <= 1
  /\ \A r \in Rows : Cardinality(LookupsFor(r)) <= 1 /\ Cardinality(MutationsFor(r)) <= 1
  /\ Cardinality({k \in 1..Len(other.calls) : other.calls[k].op = "findVariantBySKU"}) <= 1
  /\ (MyApplied # {} \/ OtherApplied # {}) => HeldAtPair = {LastQuantity}

\* Both invocations have returned, each had its mutation for the pair
\* applied, with different quantities: the second one read the variant
\* before the first one's mutation and wrote after it, and its quantity is
\* the one the store holds
LastWriterWinsWitness ==
  /\ pc = "done" /\ other.pc = "done"
  /\ MyApplied # {} /\ OtherApplied # {}
  /\ calls[Last(MyApplied)].quantity # other.quantity
  /\ other.calls[1].after < Last(MyApplied)
  /\ other.calls[2].after >= Last(MyApplied)
  /\ HeldAtPair = {other.quantity}

\* The same with the first invocation writing last
FirstWritesLastWitness ==
  /\ pc = "done" /\ other.pc = "done"
  /\ MyApplied # {} /\ OtherApplied # {}
  /\ calls[Last(MyApplied)].quantity # other.quantity
  /\ other.calls[2].after < Last(MyApplied)
  /\ HeldAtPair = {calls[Last(MyApplied)].quantity}

\* The loop is at row r, which has a SKU and a quantity and no location
AtRowWithoutLocation(r) ==
  /\ pc = "loop" /\ i = r /\ r \in Rows
  /\ ~SkuMissingOrHeader(r)
  /\ ~ParseQuantity(Get(rows[r], "Quantity Available")).nan
  /\ BlankLocation(r)

\* C25: the Inventory Location column is required in All Locations mode and
\* optional in single location mode.  The step the loop takes on a row with a
\* SKU and a quantity whose location is missing or blank: in All Locations
\* mode it adds the row to failedRows, issues no call and records no key; in
\* single location mode it takes the selected location's id as the target
\* and goes to the variant lookup, unless an earlier row has the same SKU.
LocationRequiredByMode ==
  [][\A r \in Rows : AtRowWithoutLocation(r) =>
       IF isAllLocationsMode
       THEN /\ Len(results'.failedRows) = Len(results.failedRows) + 1
            /\ fate'[r].outcome = "failed"
            /\ fate'[r].target = ""
            /\ calls' = calls
            /\ processedCombinations' = processedCombinations
            /\ pc' = "loop" /\ i' = r + 1
       ELSE IF \E e \in 1..(r - 1) : fate[e].target # ""
                                     /\ Get(rows[e], "SKU") = Get(rows[r], "SKU")
       THEN /\ FailedNext(r, DuplicateReason)
            /\ calls' = calls
       ELSE /\ pc' = "lookup" /\ i' = r
            /\ cur'.targetLocationId = locationId
            /\ fate'[r].target = locationId
            /\ results' = results]_vars

\* A run in All Locations mode that failed a row without a location and
\* updated a row with one; no call for the first
LocationRequiredWitness ==
  /\ pc = "done"
  /\ isAllLocationsMode
  /\ \E a, b \in Rows :
       /\ ReachesResolution(a) /\ BlankLocation(a)
       /\ fate[a].outcome = "failed" /\ CallsFor(a) = {}
       /\ fate[b].outcome = "updated"

\* A run in single location mode whose row without a location had its
\* mutation issued for the selected location
LocationOptionalWitness ==
  /\ pc = "done"
  /\ ~isAllLocationsMode
  /\ \E a \in Rows :
       /\ ReachesResolution(a) /\ BlankLocation(a)
       /\ Get(rows[a], "Inventory Location") = Undefined
       /\ \E k \in MutationsFor(a) : calls[k].locationId = locationId

\* Entry k of a report is the entry of exactly one row that ended that way,
\* and carries that row's columns
OneRowEach(report, outcome) ==
  \A k \in 1..Len(report) :
    /\ Cardinality({r \in WithOutcome(outcome) : fate[r].pos = k}) = 1
    /\ \A r \in WithOutcome(outcome) :
         fate[r].pos = k => \A c \in DOMAIN rows[r] : report[k][c] = rows[r][c]

\* C26: when the action returns, updated + len(failedRows) + len(skippedRows)
\* + the number of rows whose SKU is missing, empty or "SKU" is total, the
\* number of rows: every row is in exactly one of the four classes, each
\* failedRows and skippedRows entry stands for one row, and the rows outside
\* the reports and not dropped are as many as updated says.
CountsPartitionRows ==
  pc = "done" =>
    /\ results.total = Len(rows)
    /\ results.updated + Len(results.failedRows) + Len(results.skippedRows)
         + Cardinality({r \in Rows : SkuMissingOrHeader(r)}) = results.total
    /\ \A r \in Rows : fate[r].outcome \in {"updated", "failed", "skipped", "dropped"}
    /\ \A r \in Rows : SkuMissingOrHeader(r) <=> fate[r].outcome = "dropped"
    /\ results.updated = Cardinality(WithOutcome("updated"))
    /\ \A r \in WithOutcome("failed") : fate[r].pos \in 1..Len(results.failedRows)
    /\ \A r \in WithOutcome("skipped") : fate[r].pos \in 1..Len(results.skippedRows)
    /\ OneRowEach(results.failedRows, "failed")
    /\ OneRowEach(results.skippedRows, "skipped")

\* A returned run of as many rows as the bound allows, one of them dropped,
\* the others updated, failed or skipped, not all the same way
CountsPartitionRowsWitness ==
  /\ pc = "done"
  /\ Len(rows) = MaxRows
  /\ WithOutcome("dropped") # {}
  /\ WithOutcome("updated") # {}
  /\ results.updated + Len(results.failedRows) + Len(results.skippedRows)
       = results.total - 1

\* C27: results.errors and results.failedRows have the same length in every
\* state between two remote calls and at return: a message and a row are
\* pushed together, and nothing else adds to either.
ErrorsMatchFailedRows ==
  /\ Len(results.errors) = Len(results.failedRows)
  /\ Len(results.errors) = Cardinality(WithOutcome("failed"))

\* A returned run with two failed rows, one failed by the local tests and one
\* by a call that threw, and two messages
ErrorsMatchFailedRowsWitness ==
  /\ pc = "done"
  /\ Len(results.errors) = 2
  /\ \E a, b \in Rows :
       /\ FailedWith(a, FetchFailed) /\ CallsFor(a) # {}
       /\ fate[b].outcome = "failed" /\ CallsFor(b) = {}

\* Row r fails one of the local tests whatever rows precede it
RejectedLocally(r) ==
  /\ ~SkuMissingOrHeader(r)
  /\ FirstLocalFailure(r).fails
  /\ FirstLocalFailure(r).reason # DuplicateReason

\* The reason in row r's failedRows entry
ReasonOf(r) == results.failedRows[fate[r].pos]["Error Reason"]

\* The calls issued for the rows the loop has left, by the way it left them
CallsByOutcome ==
  \A r \in Rows :
    /\ (Validated(r) /\ (SkuMissingOrHeader(r) \/ RejectedLocally(r)))
         => CallsFor(r) = {}
    /\ Left(r) =>
         /\ Cardinality(LookupsFor(r)) <= 1
         /\ CallsFor(r) = LookupsFor(r) \cup MutationsFor(r)
         /\ fate[r].outcome = "dropped" => CallsFor(r) = {}
         /\ fate[r].outcome = "skipped"
              => Cardinality(LookupsFor(r)) = 1 /\ MutationsFor(r) = {}
         /\ (/\ fate[r].outcome = "failed"
             /\ ReasonOf(r) \in {DuplicateReason, <<"Variant not found">>,
                                 <<"SKU don't have this location">>})
              => /\ MutationsFor(r) = {}
                 /\ Cardinality(LookupsFor(r))
                      = IF ReasonOf(r) = DuplicateReason THEN 0 ELSE 1
         /\ fate[r].outcome = "updated"
              => Cardinality(LookupsFor(r)) = 1 /\ Cardinality(MutationsFor(r)) = 1

\* store' is store but for the levels of this item at this location
OnlyPairChanged(item, loc) ==
  /\ Len(store') = Len(store)
  /\ \A v \in 1..Len(store) :
       /\ store'[v].sku = store[v].sku
       /\ store'[v].inventoryItem = store[v].inventoryItem
       /\ Len(store'[v].inventoryLevels) = Len(store[v].inventoryLevels)
       /\ \A n \in 1..Len(store[v].inventoryLevels) :
            \/ store'[v].inventoryLevels[n] = store[v].inventoryLevels[n]
            \/ /\ store[v].inventoryItem = item
               /\ store[v].inventoryLevels[n].location = loc
               /\ store'[v].inventoryLevels[n].location = loc

\* C28: the store's inventory changes only in a step that issues an
\* inventorySetQuantities call, and then only at the item and location of
\* that call.  Rows dropped or rejected by the local tests have no call;
\* rows that fail the variant lookup or the stocked check, and skipped rows,
\* have one findVariantBySKU call and no mutation.
RemoteFrame ==
  /\ [][store' # store
          => /\ pc = "mutation"
             /\ Len(calls') = Len(calls) + 1
             /\ calls'[Len(calls')].op = "inventorySetQuantities"
             /\ calls'[Len(calls')].row = i
             /\ OnlyPairChanged(calls'[Len(calls')].inventoryItemId,
                                calls'[Len(calls')].locationId)]_vars
  /\ []CallsByOutcome

\* A returned run: a row rejected by the local tests without a call, a row
\* failed by the stocked check after one read, and the store as it was
RemoteFrameWitness ==
  /\ pc = "done"
  /\ \E a, b \in Rows :
       /\ RejectedLocally(a) /\ CallsFor(a) = {}
       /\ FailedWith(b, <<"SKU don't have this location">>)
       /\ Cardinality(CallsFor(b)) = 1
  /\ \A k \in 1..Len(calls) : calls[k].op # "inventorySetQuantities"
  /\ store \in Catalogs

\* The available quantity the store holds for row r's SKU at its target
HeldFor(r) ==
  LET v == CHOOSE v \in 1..Len(store) : store[v].sku = String(Get(rows[r], "SKU"))
      levels == store[v].inventoryLevels
  IN  {levels[n].quantities[1].quantity :
         n \in {n \in 1..Len(levels) : /\ levels[n].location = fate[r].target
                                       /\ levels[n].quantities # <<>>}}

\* C29: when the action returns, with no other writer, the store holds for
\* every row counted in updated the row's parsed quantity at the row's
\* inventory item and target location, whatever the mutation was answered.
UpdatedMeansApplied ==
  pc = "done" =>
    \A r \in WithOutcome("updated") :
      HeldFor(r) = {ParseQuantity(Get(rows[r], "Quantity Available")).n}

\* Row r has a SKU and a quantity, and a location that resolves
Resolves(r) ==
  /\ ~SkuMissingOrHeader(r)
  /\ ~ParseQuantity(Get(rows[r], "Quantity Available")).nan
  /\ IF isAllLocationsMode
     THEN ~BlankLocation(r) /\ ListingHits(r) # {}
     ELSE \/ BlankLocation(r)
          \/ /\ selectedLocationName.t = "string"
             /\ SameUpToCase(selectedLocationName.s, TrimmedLocation(r))

\* Rows a and b have the same SKU and locations that differ at most in letter
\* case and surrounding blanks or, in single location mode, of which one is
\* blank and the other names the selected location
SameSkuAndPlace(a, b) ==
  /\ Resolves(a) /\ Resolves(b)
  /\ Get(rows[a], "SKU") = Get(rows[b], "SKU")
  /\ isAllLocationsMode => SameUpToCase(TrimmedLocation(a), TrimmedLocation(b))

\* C30: the duplicate test goes by the name of the location a row resolves
\* to, not by the sheet's text.  Of two rows with the same SKU whose
\* locations differ only in letter case or blanks, or, in single location
\* mode, of which one has no location and the other names the selected one,
\* the later is in failedRows as a duplicate and never reaches the variant
\* lookup.
DuplicatesByResolvedName ==
  \A a, b \in Rows :
    (a < b /\ Validated(b) /\ SameSkuAndPlace(a, b))
      => /\ FailedWith(b, DuplicateReason)
         /\ fate[b].target = ""
         /\ CallsFor(b) = {}

\* In All Locations mode a row for "W" was updated and a later row for "w "
\* failed as its duplicate
DuplicatesByResolvedNameWitness ==
  /\ pc = "done"
  /\ isAllLocationsMode
  /\ \E a, b \in Rows :
       /\ a < b /\ SameSkuAndPlace(a, b)
       /\ Get(rows[a], "Inventory Location") = Str(<<"W">>)
       /\ Get(rows[b], "Inventory Location") = Str(<<"w", " ">>)
       /\ fate[a].outcome = "updated"
       /\ FailedWith(b, DuplicateReason)

\* In single location mode a row without a location reached the lookup and a
\* later row naming the selected location failed as its duplicate
BlankThenNamedWitness ==
  /\ pc = "done"
  /\ ~isAllLocationsMode
  /\ \E a, b \in Rows :
       /\ a < b /\ SameSkuAndPlace(a, b)
       /\ BlankLocation(a) /\ ~BlankLocation(b)
       /\ LookupsFor(a) # {}
       /\ FailedWith(b, DuplicateReason)

====
